---- MODULE Spec2Model ----
(***************************************************************************)
(* Kora rent reclaim bot: the Ledger Store (sponsored_accounts, bot_state), *)
(* the monitoring cycle (discovery + reconciliation) and the reclaim cycle  *)
(* with its safety pipeline, run against a remote ledger that changes on    *)
(* its own between any two remote calls of the bot.                         *)
(*                                                                          *)
(* Time is counted in whole days.  Lamports are scaled to small integers:    *)
(* the rent-exempt minimum is 1 plus the data length.                        *)
(* One bot process runs at a time (index.ts runs one mode per invocation);  *)
(* the configuration is read anew by every process.                         *)
(***************************************************************************)
EXTENDS Integers, Sequences, FiniteSets, TLC

\* ------------------------------------------------------------------------
\* Bounds of the model
\* ------------------------------------------------------------------------
\* the clock runs over the days 0..MaxTime
MaxTime == 2
\* transactions per page of the signature history (the program asks for 100)
ScanLimit == 1
\* accounts per batch of the reconciliation pass (the program takes 100)
BatchSize == 1
\* chunk on its own: arrays of up to MaxLen elements, sizes 1..MaxSize
MaxLen == 4
MaxSize == 3
\* the most lamports an account is topped up to
MaxLamports == 3
\* rate limiter: clock ticks per second (the program counts 1000 ms per second)
TicksPerSecond == 2
\* rate limiter: requestsPerSecond ranges over 1..MaxRate
MaxRate == 2
\* rate limiter: the clock runs over 0..MaxClock ticks
MaxClock == 6
\* rate limiter: acquire() calls made
MaxAcquires == 4
\* withRetry on its own: opts.maxAttempts ranges over 1..MaxTries
MaxTries == 4
\* withRetry on its own: opts.maxDelayMs ranges over 1..MaxDelay (scaled)
MaxDelay == 3

\* ------------------------------------------------------------------------
\* Program constants
\* ------------------------------------------------------------------------
\* DEFAULT_RETRY_OPTIONS.maxAttempts
MaxAttempts == 3

Handles == {1, 2}
Times == 0..MaxTime
Null == -1

\* the program that owns the account of handle h whenever that account exists
\* ("sys", "tok": KNOWN_PROGRAMS.SYSTEM, .TOKEN; "other": none of KNOWN_PROGRAMS)
ProgramOf(h) == CASE h % 3 = 1 -> "tok" [] h % 3 = 2 -> "sys" [] OTHER -> "other"
\* the operator keypair's public key (never a program id)
OperatorPubkey == "operator"

\* AccountStatus / AccountType
AccountStatus == {"active", "empty", "closed", "reclaimed", "protected", "error"}
AccountType == {"system", "token", "token_2022", "ata", "pda", "unknown"}

\* ------------------------------------------------------------------------
\* State
\* ------------------------------------------------------------------------
VARIABLES
  now,               \* wall clock (Date.now()), in days
  remote,            \* the remote ledger: handle -> account info
  history,           \* the fee payer's signature history, newest first
  submits,           \* sendAndConfirmTransaction calls the running process has made, per handle
  reclaimHistory,    \* reclaim_history: the rows the running process has inserted
  db,                \* sponsored_accounts: handle -> row (status "absent" = no row)
  cursor,            \* bot_state['last_processed_signature'] (Null = none)
  pc,                \* what the running process is doing ("idle" = no process)
  config,            \* BotConfig of the running process
  beforeSignature,   \* discoverNewAccounts: local beforeSignature
  page,              \* discoverNewAccounts: transactions of the page not yet handled
  lastSignature,     \* discoverNewAccounts: lastSignature of the page
  newAccountCount,   \* discoverNewAccounts: newAccountCount
  batches,           \* updateAccountStatuses: the batches not yet checked
  missed,            \* handles of the page in progress that got no row (a read failed)
  skipped,           \* handles the persisted cursor has passed after a failed read
  scanStart,         \* newest signature of the scan the persisted cursor continues
  lastRun,           \* how the last discoverNewAccounts call ended ("failed": it
                     \* returned and reconciliation threw), "none" once the remote
                     \* ledger or the store has changed since
  rerun,             \* lastRun as it was when the running discovery started
  clock,             \* Date.now() of the rate limiter, in ticks
  limiter,           \* the RateLimiter object of the Gateway
  waiting,           \* per caller: the acquire() call suspended in sleep(waitTime)
  completed,         \* the acquire() calls that have returned: start and return time
  stage,             \* run(): where the process stands ("none": run() is not followed)
  mode,              \* options.mode of the process
  storeOpen,         \* DatabaseService: this.db is not null
  trace,             \* the close and exit events of the process, in order
  chunkCall,         \* a call of chunk(array, size) and what it has returned
  retryCall,         \* a Gateway call: its acquire() calls and its withRetry loop
  eligibleAccounts,  \* runReclaimCycle: eligibleAccounts
  idx,               \* runReclaimCycle: position of the for loop (1-based)
  run,               \* reclaimAccount: position inside the call for eligibleAccounts[idx]
  results,           \* runReclaimCycle: results
  fetched,           \* whether the last reclaimAccount step made a remote read
  twin               \* the same reclaimAccount call replayed in simulate mode

vars == <<now, remote, history, submits, reclaimHistory, db, cursor, pc, config,
          beforeSignature, page, lastSignature, eligibleAccounts, idx, run, results,
          fetched, twin, newAccountCount, missed, skipped, scanStart, lastRun, rerun,
          batches, clock, limiter, waiting, completed, stage, mode, storeOpen, trace,
          chunkCall, retryCall>>

botVars == <<now, remote, history, submits, reclaimHistory, db, cursor, pc, config,
             beforeSignature, page, lastSignature, eligibleAccounts, idx, run, results,
             fetched, twin, newAccountCount, missed, skipped, scanStart, lastRun, rerun,
             batches>>
limiterVars == <<clock, limiter, waiting, completed>>
procVars == <<stage, mode, storeOpen, trace>>

remoteVars == <<now, remote, history>>
discoverVars == <<beforeSignature, page, lastSignature, newAccountCount, missed, batches>>
scanVars == <<skipped, rerun>>
reclaimVars == <<submits, reclaimHistory, config, eligibleAccounts, idx, run, results,
                 fetched, twin>>

\* ------------------------------------------------------------------------
\* Helpers
\* ------------------------------------------------------------------------
Min(a, b) == IF a < b THEN a ELSE b

\* ------------------------------------------------------------------------
\* Remote ledger
\* ------------------------------------------------------------------------
NoAccount == [exists |-> FALSE, lamports |-> 0, owner |-> ""]

\* data length of an account of the given owner program (scaled)
DataLength(owner) == IF owner = "sys" THEN 0 ELSE 1

\* connection.getMinimumBalanceForRentExemption (scaled)
getRentExemptMinimum(dataSize) == 1 + dataSize

\* the account of handle h as its creator funds it: rent exempt, no more
Funded(h) ==
  [exists |-> TRUE, lamports |-> getRentExemptMinimum(DataLength(ProgramOf(h))),
   owner |-> ProgramOf(h)]

detectAccountType(owner, dataLength) ==
  CASE owner = "sys" -> "system"
    [] owner = "tok" -> "token"
    [] owner = "tok22" -> "token_2022"
    [] owner = "ata" -> "ata"
    [] OTHER -> IF dataLength > 0 THEN "pda" ELSE "unknown"

\* the value checkAccountState returns for an account info
checkAccountState(info) ==
  IF ~info.exists
    THEN [exists |-> FALSE, lamports |-> 0, owner |-> "", type |-> "unknown",
          rentExemptMinimum |-> 0]
    ELSE [exists |-> TRUE, lamports |-> info.lamports, owner |-> info.owner,
          type |-> detectAccountType(info.owner, DataLength(info.owner)),
          rentExemptMinimum |-> getRentExemptMinimum(DataLength(info.owner))]

\* ------------------------------------------------------------------------
\* Ledger Store
\* ------------------------------------------------------------------------
NoRow == [status |-> "absent", type |-> "unknown", lamports |-> 0,
          rentExemptMinimum |-> 0, owner |-> "", lastCheckedAt |-> Null,
          closedAt |-> Null, reclaimedAt |-> Null, reclaimTxSignature |-> "",
          reclaimedAmount |-> Null, errorMessage |-> "", creationTxSignature |-> Null]

\* additionalFields of updateAccountStatus with nothing set
NoFields == [lamports |-> Null, closedAt |-> Null, reclaimedAt |-> Null,
             reclaimTxSignature |-> "", reclaimedAmount |-> Null, errorMessage |-> ""]

\* faulty variant of updateAccountStatus: closed_at is written once and kept
updateAccountStatus_KeepsClosedAt(row, status, f, t) ==
  IF row.status = "absent" THEN row
  ELSE [row EXCEPT
          !.status = status,
          !.lastCheckedAt = t,
          !.errorMessage = IF f.errorMessage # "" THEN f.errorMessage ELSE @,
          !.lamports = IF f.lamports # Null THEN f.lamports ELSE @,
          !.closedAt = IF @ # Null THEN @ ELSE f.closedAt,
          !.reclaimedAt = IF f.reclaimedAt # Null THEN f.reclaimedAt ELSE @,
          !.reclaimTxSignature = IF f.reclaimTxSignature # "" THEN f.reclaimTxSignature ELSE @,
          !.reclaimedAmount = IF f.reclaimedAmount # Null THEN f.reclaimedAmount ELSE @]

\* updateAccountStatus(pubkey, status, additionalFields) at time t, on the row of
\* pubkey
updateAccountStatus(row, status, f, t) ==
  IF row.status = "absent" THEN row
  ELSE [row EXCEPT
          !.status = status,
          !.lastCheckedAt = t,
          !.errorMessage = IF f.errorMessage # "" THEN f.errorMessage ELSE @,
          !.lamports = IF f.lamports # Null THEN f.lamports ELSE @,
          !.closedAt = IF f.closedAt # Null THEN f.closedAt ELSE @,
          !.reclaimedAt = IF f.reclaimedAt # Null THEN f.reclaimedAt ELSE @,
          !.reclaimTxSignature = IF f.reclaimTxSignature # "" THEN f.reclaimTxSignature ELSE @,
          !.reclaimedAmount = IF f.reclaimedAmount # Null THEN f.reclaimedAmount ELSE @]

markAsReclaimed(row, txSignature, amount, t) ==
  updateAccountStatus(row, "reclaimed",
    [NoFields EXCEPT !.reclaimedAt = t, !.reclaimTxSignature = txSignature,
                     !.reclaimedAmount = amount], t)

\* faulty variant of getAccountsByStatus: the WHERE clause is missing
getAccountsByStatus_AnyStatus(d, status) == {h \in Handles : d[h].status # "absent"}

getAccountsByStatus(d, status) == {h \in Handles : d[h].status = status}

\* rowToAccount: the SponsoredAccount object built from the row of handle h
rowToAccount(h, row) ==
  [pubkey |-> h, type |-> row.type, status |-> row.status, lamports |-> row.lamports,
   rentExemptMinimum |-> row.rentExemptMinimum, owner |-> row.owner,
   closedAt |-> row.closedAt, reclaimedAt |-> row.reclaimedAt]

\* faulty variant of ReclaimableRows: protected rows stay eligible
ReclaimableRows_WithProtected(d, cutoffDate) ==
  {h \in Handles : /\ d[h].status \in {"closed", "protected"}
                   /\ d[h].closedAt # Null
                   /\ d[h].closedAt < cutoffDate
                   /\ d[h].reclaimedAt = Null}

\* faulty variant of ReclaimableRows: the cutoff is not applied
ReclaimableRows_NoCutoff(d, cutoffDate) ==
  {h \in Handles : /\ d[h].status = "closed"
                   /\ d[h].closedAt # Null
                   /\ d[h].reclaimedAt = Null}

\* the rows the WHERE clause of getReclaimableAccounts keeps (NULL < x is not true)
ReclaimableRows(d, cutoffDate) ==
  {h \in Handles : /\ d[h].status = "closed"
                   /\ d[h].closedAt # Null
                   /\ d[h].closedAt < cutoffDate
                   /\ d[h].reclaimedAt = Null}

\* faulty variant of OrderedByClosedAt: the ORDER BY clause is missing
OrderedByClosedAt_AnyOrder(d, S) ==
  {s \in [1..Cardinality(S) -> S] :
     \A i, j \in 1..Cardinality(S) : i # j => s[i] # s[j]}

\* all orders ORDER BY closed_at ASC may give to a set of rows (ties are unordered)
OrderedByClosedAt(d, S) ==
  {s \in [1..Cardinality(S) -> S] :
     /\ \A i, j \in 1..Cardinality(S) : i # j => s[i] # s[j]
     /\ \A i, j \in 1..Cardinality(S) : i < j => d[s[i]].closedAt <= d[s[j]].closedAt}

\* the possible results of getReclaimableAccounts(minAgeDays, limit) at time t
getReclaimableAccounts(d, minAgeDays, limit, t) ==
  LET cutoffDate == t - minAgeDays
      S == ReclaimableRows(d, cutoffDate)
  IN {[i \in 1..Min(limit, Cardinality(S)) |-> rowToAccount(s[i], d[s[i]])] :
        s \in OrderedByClosedAt(d, S)}

\* faulty variant of upsertAccount: the update writes every column of the object
upsertAccount_WritesAll(row, account) ==
  [NoRow EXCEPT !.status = account.status, !.type = account.type,
                !.lamports = account.lamports,
                !.lastCheckedAt = account.lastCheckedAt,
                !.rentExemptMinimum = account.rentExemptMinimum,
                !.owner = account.owner, !.closedAt = account.closedAt,
                !.creationTxSignature = account.creationTxSignature]

\* upsertAccount on the row of account.pubkey
upsertAccount(row, account) ==
  IF row.status # "absent"
    THEN [row EXCEPT !.status = account.status, !.lamports = account.lamports,
                     !.lastCheckedAt = account.lastCheckedAt,
                     !.closedAt = IF account.closedAt # Null THEN account.closedAt ELSE @,
                     !.errorMessage = ""]
    ELSE [NoRow EXCEPT !.status = account.status, !.type = account.type,
                       !.lamports = account.lamports,
                       !.lastCheckedAt = account.lastCheckedAt,
                       !.rentExemptMinimum = account.rentExemptMinimum,
                       !.owner = account.owner, !.closedAt = account.closedAt,
                       !.creationTxSignature = account.creationTxSignature]

\* ------------------------------------------------------------------------
\* Configuration
\* ------------------------------------------------------------------------
MinReclaimChoices == {0, 2}
ProgramLists == {{}, {"tok"}}

\* a minimum age of MaxTime days or more selects nothing; a batch size above the
\* number of handles selects what that number selects
Configs == [minAccountAgeDays : 0..(MaxTime - 1),
            minReclaimLamports : MinReclaimChoices,
            maxBatchSize : 1..Cardinality(Handles),
            dryRun : BOOLEAN,
            allowedPrograms : ProgramLists,
            blockedPrograms : ProgramLists]

\* the configuration variable while no reclaim process runs
NoConfig == [minAccountAgeDays |-> 0, minReclaimLamports |-> 0, maxBatchSize |-> 1,
             dryRun |-> TRUE, allowedPrograms |-> {}, blockedPrograms |-> {}]

\* faulty variant of isProgramAllowed: with an allow-list the block-list is not
\* consulted
isProgramAllowed_AllowListWins(cfg, programId) ==
  IF cfg.allowedPrograms = {}
    THEN ~(programId \in cfg.blockedPrograms)
    ELSE programId \in cfg.allowedPrograms

\* SolanaService.isProgramAllowed; the two lists as sets of program ids
isProgramAllowed(cfg, programId) ==
  IF cfg.allowedPrograms = {}
    THEN ~(programId \in cfg.blockedPrograms)
    ELSE (programId \in cfg.allowedPrograms) /\ ~(programId \in cfg.blockedPrograms)

ageInDays(timestamp, t) == t - timestamp

\* ------------------------------------------------------------------------
\* Gateway: retry policy
\* ------------------------------------------------------------------------
\* DEFAULT_RETRY_OPTIONS.retryableErrors, as far as the modelled errors go
isRetryable(errorMessage) == errorMessage \in {"timeout", "ECONNRESET"}

\* what withRetry does after attempt number `attempt` failed with errorMessage
withRetry(attempt, errorMessage) ==
  IF ~isRetryable(errorMessage) \/ attempt = MaxAttempts THEN "throw" ELSE "retry"

\* ------------------------------------------------------------------------
\* withRetry and the Gateway calls, followed attempt by attempt.  A message is
\* the sequence of its characters.
\* ------------------------------------------------------------------------
UpperCase == <<"A", "B", "C", "D", "E", "F", "G", "H", "I", "J", "K", "L", "M",
               "N", "O", "P", "Q", "R", "S", "T", "U", "V", "W", "X", "Y", "Z">>
LowerCase == <<"a", "b", "c", "d", "e", "f", "g", "h", "i", "j", "k", "l", "m",
               "n", "o", "p", "q", "r", "s", "t", "u", "v", "w", "x", "y", "z">>

\* String.prototype.toLowerCase
toLowerCase(str) ==
  [i \in 1..Len(str) |->
     IF \E k \in 1..26 : UpperCase[k] = str[i]
       THEN LowerCase[CHOOSE k \in 1..26 : UpperCase[k] = str[i]]
       ELSE str[i]]

\* String.prototype.includes
includes(str, search) ==
  \E i \in 0..(Len(str) - Len(search)) : SubSeq(str, i + 1, i + Len(search)) = search

\* DEFAULT_RETRY_OPTIONS.retryableErrors
retryableErrors ==
  {<<"E", "C", "O", "N", "N", "R", "E", "S", "E", "T">>,
   <<"E", "T", "I", "M", "E", "D", "O", "U", "T">>,
   <<"E", "N", "O", "T", "F", "O", "U", "N", "D">>,
   <<"4", "2", "9">>,
   <<"5", "0", "3">>,
   <<"5", "0", "2">>,
   <<"5", "0", "4">>,
   <<"r", "a", "t", "e", " ", "l", "i", "m", "i", "t">>,
   <<"t", "i", "m", "e", "o", "u", "t">>}

\* the messages of the errors fn may throw
ErrorMessages ==
  {<<"T", "i", "m", "e", "o", "u", "t">>,
   <<"c", "o", "n", "n", "e", "c", "t", " ", "E", "T", "I", "M", "E", "D", "O", "U", "T">>,
   <<"H", "T", "T", "P", " ", "4", "2", "9">>,
   <<"R", "a", "t", "e", " ", "L", "i", "m", "i", "t">>,
   <<"c", "u", "s", "t", "o", "m", " ", "e", "r", "r", "o", "r">>,
   <<"t", "i", "m", "e", "d">>}

\* opts.retryableErrors?.some(e => errorMessage.includes(e.toLowerCase())), with
\* errorMessage = lastError.message.toLowerCase()
isRetryableError(message, errors) ==
  LET errorMessage == toLowerCase(message)
  IN \E e \in errors : includes(errorMessage, toLowerCase(e))

\* DEFAULT_RETRY_OPTIONS (delays in seconds)
DefaultRetryOptions ==
  [maxAttempts |-> MaxAttempts, initialDelayMs |-> 1, maxDelayMs |-> 30,
   backoffMultiplier |-> 2]

\* the options withRetry is checked with
RetryOptions ==
  [maxAttempts : 1..MaxTries, initialDelayMs : 1..2, maxDelayMs : 1..MaxDelay,
   backoffMultiplier : 1..2]

\* the network calls of the Gateway: acquires = the call is preceded by
\* rateLimiter.acquire(), wrapped = it is made inside withRetry
GatewayCalls ==
  {[name |-> "getSignaturesForAddress", acquires |-> TRUE, wrapped |-> TRUE],
   [name |-> "getParsedTransaction", acquires |-> TRUE, wrapped |-> TRUE],
   [name |-> "getAccountInfo", acquires |-> TRUE, wrapped |-> TRUE],
   [name |-> "getMultipleAccountsInfo", acquires |-> TRUE, wrapped |-> TRUE],
   [name |-> "getMinimumBalanceForRentExemption", acquires |-> TRUE, wrapped |-> TRUE],
   [name |-> "getAccount", acquires |-> FALSE, wrapped |-> FALSE],
   [name |-> "sendAndConfirmTransaction", acquires |-> TRUE, wrapped |-> TRUE],
   [name |-> "getBalance", acquires |-> TRUE, wrapped |-> TRUE]}

\* withRetry called directly, outside the Gateway
BareRetry == [name |-> "fn", acquires |-> FALSE, wrapped |-> TRUE]

\* a call before its first step: pos is "acquire" | "call" | "done", acquired counts the acquire() calls made,
\* attempt the calls of fn made, delay is the local `delay`, sleeps the sleep
\* calls made, result "none" | "returned" | "thrown", lastError the error thrown
\* by the last failed attempt
StartCall(call, opts) ==
  [call |-> call, opts |-> opts, pos |-> IF call.acquires THEN "acquire" ELSE "call",
   acquired |-> 0, attempt |-> 0,
   delay |-> opts.initialDelayMs, sleeps |-> <<>>, result |-> "none",
   lastError |-> <<>>, raised |-> <<>>]

NoRetryCall == [StartCall(BareRetry, DefaultRetryOptions) EXCEPT !.pos = "done"]

\* faulty variant of AfterFailure: the delay is raised before the sleep
AfterFailure_RaiseFirst(c, message) ==
  LET o == c.opts
      d == Min(c.delay * o.backoffMultiplier, o.maxDelayMs)
  IN IF ~c.call.wrapped
          \/ ~isRetryableError(message, retryableErrors) \/ c.attempt + 1 = o.maxAttempts
       THEN [c EXCEPT !.attempt = @ + 1, !.lastError = message, !.raised = message,
                      !.result = "thrown", !.pos = "done"]
       ELSE [c EXCEPT !.attempt = @ + 1, !.lastError = message,
                      !.sleeps = Append(@, d), !.delay = d]

\* the catch block of withRetry after fn has thrown message (a call outside
\* withRetry throws right away)
AfterFailure(c, message) ==
  LET o == c.opts IN
  IF ~c.call.wrapped
       \/ ~isRetryableError(message, retryableErrors) \/ c.attempt + 1 = o.maxAttempts
    THEN [c EXCEPT !.attempt = @ + 1, !.lastError = message, !.raised = message,
                   !.result = "thrown", !.pos = "done"]
    ELSE [c EXCEPT !.attempt = @ + 1, !.lastError = message,
                   !.sleeps = Append(@, c.delay),
                   !.delay = Min(c.delay * o.backoffMultiplier, o.maxDelayMs)]

\* await this.rateLimiter.acquire() at the head of a Gateway method
GatewayAcquire ==
  /\ retryCall.pos = "acquire"
  /\ retryCall' = [retryCall EXCEPT !.pos = "call", !.acquired = @ + 1]
  /\ UNCHANGED <<botVars, limiterVars, procVars, chunkCall>>

\* one attempt: fn() is called and returns, or throws one of the messages
Attempt ==
  /\ retryCall.pos = "call"
  /\ \/ retryCall' = [retryCall EXCEPT !.attempt = @ + 1, !.result = "returned",
                                         !.pos = "done"]
     \/ \E message \in ErrorMessages : retryCall' = AfterFailure(retryCall, message)
  /\ UNCHANGED <<botVars, limiterVars, procVars, chunkCall>>

\* ------------------------------------------------------------------------
\* Remote responses consumed by one step of reclaimAccount
\* ------------------------------------------------------------------------
\* err: the read failed after the Gateway's retries; tok..tokAmount: the answer
\* of getAccount; send: the outcome of one sendAndConfirmTransaction attempt;
\* landed: whether a timed-out transaction was executed by the ledger all the same
NoResp == [err |-> FALSE, tok |-> "none", ownerIsOp |-> FALSE, closeAuthIsOp |-> FALSE,
           tokAmount |-> 0, send |-> "none", landed |-> FALSE]

StateResponses == {NoResp, [NoResp EXCEPT !.err = TRUE]}

TokenResponses(info) ==
  IF ~info.exists
    THEN {[NoResp EXCEPT !.tok = "notFound"]}
    ELSE {[NoResp EXCEPT !.err = TRUE]} \cup
         {[NoResp EXCEPT !.tok = "info", !.ownerIsOp = o, !.closeAuthIsOp = c, !.tokAmount = a] :
            o \in BOOLEAN, c \in BOOLEAN, a \in 0..1}

SendResponses(info) ==
  {[NoResp EXCEPT !.send = "custom program error"]} \cup
  {[NoResp EXCEPT !.send = "timeout", !.landed = l] :
     l \in (IF info.exists THEN BOOLEAN ELSE {FALSE})} \cup
  (IF info.exists THEN {[NoResp EXCEPT !.send = "ok"]} ELSE {})

Responses(rpos, info) ==
  CASE rpos = "getAccount" -> TokenResponses(info)
    [] rpos = "send" -> SendResponses(info)
    [] OTHER -> StateResponses

\* ------------------------------------------------------------------------
\* Reclaim Engine
\* ------------------------------------------------------------------------
\* position inside one reclaimAccount call: rpos is the next remote call,
\* amount the local `amount`, attempt the attempt number of withRetry,
\* hasAuthority and tokenAmount what the authority and balance checks have read
StartRun == [rpos |-> "start", amount |-> 0, attempt |-> 0, hasAuthority |-> FALSE,
             tokenAmount |-> 0]

\* values returned by reclaimTokenAccountRent / closeSystemAccount, or the
\* position they go on from
Ret(success, signature, amount, error, submitted) ==
  [kind |-> "return", run |-> StartRun, success |-> success, signature |-> signature,
   amount |-> amount, error |-> error, submitted |-> submitted]

Cont(r, submitted) ==
  [kind |-> "continue", run |-> r, success |-> FALSE, signature |-> "",
   amount |-> 0, error |-> "", submitted |-> submitted]

\* withRetry(() => sendAndConfirmTransaction(...)) and the return that follows
sendAndConfirmTransaction(s, resp) ==
  IF resp.send = "ok"
    THEN Ret(TRUE, "sig", s.amount, "", TRUE)
    ELSE IF withRetry(s.attempt, resp.send) = "retry"
      THEN Cont([s EXCEPT !.attempt = @ + 1], TRUE)
      ELSE Ret(FALSE, "", 0, resp.send, TRUE)

\* faulty variant of closeAuthorityStep: the dry-run return is missing
closeAuthorityStep_IgnoreDryRun(dryRun, s, resp) ==
  IF resp.tok = "notFound"
    THEN Ret(FALSE, "", 0, "Token account not found or invalid", FALSE)
  ELSE IF resp.err THEN Ret(FALSE, "", 0, "rpc error", FALSE)
  ELSE IF ~(resp.ownerIsOp \/ resp.closeAuthIsOp)
    THEN Ret(FALSE, "", 0, "Operator does not have close authority for this account", FALSE)
  ELSE IF resp.tokAmount > 0
    THEN Ret(FALSE, "", 0, "Token account has non-zero balance", FALSE)
  ELSE Cont([s EXCEPT !.rpos = "send", !.attempt = 1,
                      !.hasAuthority = resp.ownerIsOp \/ resp.closeAuthIsOp,
                      !.tokenAmount = resp.tokAmount], FALSE)

\* faulty variant of closeAuthorityStep: the dry-run return comes before the
\* close-authority and balance checks
closeAuthorityStep_DryRunFirst(dryRun, s, resp) ==
  IF resp.tok = "notFound"
    THEN Ret(FALSE, "", 0, "Token account not found or invalid", FALSE)
  ELSE IF resp.err THEN Ret(FALSE, "", 0, "rpc error", FALSE)
  ELSE IF dryRun THEN Ret(TRUE, "", s.amount, "", FALSE)
  ELSE IF ~(resp.ownerIsOp \/ resp.closeAuthIsOp)
    THEN Ret(FALSE, "", 0, "Operator does not have close authority for this account", FALSE)
  ELSE IF resp.tokAmount > 0
    THEN Ret(FALSE, "", 0, "Token account has non-zero balance", FALSE)
  ELSE Cont([s EXCEPT !.rpos = "send", !.attempt = 1,
                      !.hasAuthority = resp.ownerIsOp \/ resp.closeAuthIsOp,
                      !.tokenAmount = resp.tokAmount], FALSE)

\* faulty variant of closeAuthorityStep: the token balance is not checked
closeAuthorityStep_NoBalanceCheck(dryRun, s, resp) ==
  IF resp.tok = "notFound"
    THEN Ret(FALSE, "", 0, "Token account not found or invalid", FALSE)
  ELSE IF resp.err THEN Ret(FALSE, "", 0, "rpc error", FALSE)
  ELSE IF ~(resp.ownerIsOp \/ resp.closeAuthIsOp)
    THEN Ret(FALSE, "", 0, "Operator does not have close authority for this account", FALSE)
  ELSE IF dryRun THEN Ret(TRUE, "", s.amount, "", FALSE)
  ELSE Cont([s EXCEPT !.rpos = "send", !.attempt = 1,
                      !.hasAuthority = resp.ownerIsOp \/ resp.closeAuthIsOp,
                      !.tokenAmount = resp.tokAmount], FALSE)

\* reclaimTokenAccountRent from the getAccount call on: the close-authority and
\* balance checks, then the dry-run return or the way to the submit
closeAuthorityStep(dryRun, s, resp) ==
  IF resp.tok = "notFound"
    THEN Ret(FALSE, "", 0, "Token account not found or invalid", FALSE)
  ELSE IF resp.err THEN Ret(FALSE, "", 0, "rpc error", FALSE)
  ELSE IF ~(resp.ownerIsOp \/ resp.closeAuthIsOp)
    THEN Ret(FALSE, "", 0, "Operator does not have close authority for this account", FALSE)
  ELSE IF resp.tokAmount > 0
    THEN Ret(FALSE, "", 0, "Token account has non-zero balance", FALSE)
  ELSE IF dryRun THEN Ret(TRUE, "", s.amount, "", FALSE)
  ELSE Cont([s EXCEPT !.rpos = "send", !.attempt = 1,
                      !.hasAuthority = resp.ownerIsOp \/ resp.closeAuthIsOp,
                      !.tokenAmount = resp.tokAmount], FALSE)

reclaimTokenAccountRent(dryRun, s, info, resp) ==
  CASE s.rpos = "reclaimToken" ->
         IF resp.err THEN Ret(FALSE, "", 0, "rpc error", FALSE)
         ELSE LET accountState == checkAccountState(info) IN
           IF ~accountState.exists
             THEN Ret(FALSE, "", 0, "Account does not exist (already closed)", FALSE)
           ELSE IF accountState.type \notin {"token", "token_2022", "ata"}
             THEN Ret(FALSE, "", 0, "Not a token account", FALSE)
           ELSE Cont([StartRun EXCEPT !.rpos = "getAccount",
                                      !.amount = accountState.lamports], FALSE)
    [] s.rpos = "getAccount" -> closeAuthorityStep(dryRun, s, resp)
    [] OTHER -> sendAndConfirmTransaction(s, resp)

closeSystemAccount(dryRun, s, info, resp) ==
  CASE s.rpos = "closeSystem" ->
         IF resp.err THEN Ret(FALSE, "", 0, "rpc error", FALSE)
         ELSE LET accountState == checkAccountState(info) IN
           IF ~accountState.exists
             THEN Ret(FALSE, "", 0, "Account does not exist", FALSE)
           ELSE IF accountState.type # "system"
             THEN Ret(FALSE, "", 0, "Not a system account", FALSE)
           ELSE IF accountState.owner # OperatorPubkey
             THEN Ret(FALSE, "", 0, "Operator does not own this account", FALSE)
           ELSE IF dryRun THEN Ret(TRUE, "", accountState.lamports, "", FALSE)
           ELSE Cont([StartRun EXCEPT !.rpos = "send", !.amount = accountState.lamports,
                                      !.attempt = 1,
                                      !.hasAuthority = accountState.owner = OperatorPubkey],
                     FALSE)
    [] OTHER -> sendAndConfirmTransaction(s, resp)

\* ReclaimResult
Result(success, account, amount, signature, error, dryRun) ==
  [success |-> success, account |-> account, amount |-> amount,
   signature |-> signature, error |-> error, dryRun |-> dryRun]

NoResult == Result(FALSE, 0, 0, "", "", FALSE)

\* what one step of reclaimAccount does: kind "continue" (goes on at o.run),
\* "return" (o.result) or "throw"; status/fields: the updateAccountStatus or
\* markAsReclaimed call it makes ("none": no call); attempt: the reclaim_history
\* row it inserts ("none": no row); fetched: it made a remote call
Outcome(kind, r, status, fields, result, attempt, fetchedFlag, submitted) ==
  [kind |-> kind, run |-> r, status |-> status, fields |-> fields, result |-> result,
   attempt |-> attempt, fetched |-> fetchedFlag, submitted |-> submitted]

\* faulty variant of SafetyChecks: the allow-list check comes first
SafetyChecks_AllowListFirst(account, cfg, t) ==
  IF ~isProgramAllowed(cfg, account.owner)
    THEN "Program not allowed"
  ELSE IF account.closedAt # Null /\ ageInDays(account.closedAt, t) < cfg.minAccountAgeDays
    THEN "Account too recent"
  ELSE IF account.rentExemptMinimum < cfg.minReclaimLamports
    THEN "Below minimum reclaim"
  ELSE ""

\* the three safety checks reclaimAccount makes before any remote call: the error
\* of the first one that fails, "" when all pass
SafetyChecks(account, cfg, t) ==
  IF account.closedAt # Null /\ ageInDays(account.closedAt, t) < cfg.minAccountAgeDays
    THEN "Account too recent"
  ELSE IF account.rentExemptMinimum < cfg.minReclaimLamports
    THEN "Below minimum reclaim"
  ELSE IF ~isProgramAllowed(cfg, account.owner)
    THEN "Program not allowed"
  ELSE ""

reclaimAccount(account, cfg, dryRun, s, info, resp, t) ==
  IF s.rpos = "start" THEN
    LET failed == SafetyChecks(account, cfg, t) IN
    IF failed # ""
      THEN Outcome("return", StartRun,
                   IF failed = "Program not allowed" THEN "protected" ELSE "none",
                   NoFields, Result(FALSE, account.pubkey, 0, "", failed, dryRun),
                   "none", FALSE, FALSE)
    ELSE IF resp.err
      THEN Outcome("throw", StartRun, "none", NoFields, NoResult, "none", TRUE, FALSE)
    ELSE LET currentState == checkAccountState(info) IN
      IF currentState.exists
        THEN Outcome("return", StartRun, "active",
                     [NoFields EXCEPT !.lamports = currentState.lamports],
                     Result(FALSE, account.pubkey, 0, "", "Account was revived - not closed", dryRun),
                     "none", TRUE, FALSE)
      ELSE IF account.type \in {"token", "token_2022", "ata"}
        THEN Outcome("continue", [StartRun EXCEPT !.rpos = "reclaimToken"], "none",
                     NoFields, NoResult, "none", TRUE, FALSE)
      ELSE IF account.type = "system"
        THEN Outcome("continue", [StartRun EXCEPT !.rpos = "closeSystem"], "none",
                     NoFields, NoResult, "none", TRUE, FALSE)
      ELSE Outcome("return", StartRun, "none", NoFields,
                   Result(FALSE, account.pubkey, 0, "", "Unsupported account type", dryRun),
                   "failure", TRUE, FALSE)
  ELSE
    LET result == IF account.type = "system"
                    THEN closeSystemAccount(dryRun, s, info, resp)
                    ELSE reclaimTokenAccountRent(dryRun, s, info, resp)
    IN IF result.kind = "continue"
         THEN Outcome("continue", result.run, "none", NoFields, NoResult, "none",
                      TRUE, result.submitted)
       ELSE IF result.success
         THEN Outcome("return", StartRun,
                      IF dryRun THEN "none" ELSE "reclaimed",
                      IF dryRun THEN NoFields
                      ELSE [NoFields EXCEPT
                              !.reclaimedAt = t,
                              !.reclaimTxSignature = result.signature,
                              !.reclaimedAmount = IF result.amount # 0 THEN result.amount
                                                  ELSE account.rentExemptMinimum],
                      Result(TRUE, account.pubkey, result.amount, result.signature, "", dryRun),
                      IF dryRun THEN "none" ELSE "success", TRUE, result.submitted)
       ELSE Outcome("return", StartRun, "none", NoFields,
                    Result(FALSE, account.pubkey, 0, "", result.error, dryRun),
                    "failure", TRUE, result.submitted)

\* faulty variant of ApplyOutcome: a failed attempt marks the row error
ApplyOutcome_FailureMarksError(row, o, t) ==
  IF o.status = "none"
    THEN IF o.attempt = "failure"
           THEN updateAccountStatus(row, "error",
                                    [NoFields EXCEPT !.errorMessage = o.result.error], t)
           ELSE row
  ELSE IF o.status = "reclaimed"
    THEN markAsReclaimed(row, o.fields.reclaimTxSignature, o.fields.reclaimedAmount, t)
  ELSE updateAccountStatus(row, o.status, o.fields, t)

\* the row after the store call an outcome of reclaimAccount asks for
ApplyOutcome(row, o, t) ==
  IF o.status = "none" THEN row
  ELSE IF o.status = "reclaimed"
    THEN markAsReclaimed(row, o.fields.reclaimTxSignature, o.fields.reclaimedAmount, t)
  ELSE updateAccountStatus(row, o.status, o.fields, t)

\* faulty variant of recordReclaimAttempt: markAsReclaimed inserts no row
recordReclaimAttempt_FailuresOnly(hist, o) ==
  IF o.attempt # "failure" THEN hist
  ELSE Append(hist, [account |-> o.result.account, success |-> FALSE,
                     dryRun |-> o.result.dryRun])

\* recordReclaimAttempt: reclaim_history after the insert an outcome asks for
\* (markAsReclaimed inserts its row with dry_run = 0)
recordReclaimAttempt(hist, o) ==
  IF o.attempt = "none" THEN hist
  ELSE Append(hist, [account |-> o.result.account, success |-> o.attempt = "success",
                     dryRun |-> o.attempt = "failure" /\ o.result.dryRun])

\* the simulate-mode replay of the reclaimAccount call in progress: its position,
\* the row and the reclaim_history rows it would have written, its result
NoTwin == [active |-> FALSE, done |-> FALSE, run |-> StartRun, row |-> NoRow,
           result |-> NoResult, submits |-> 0, attempts |-> <<>>]

\* one step of the replay: the same account, configuration, clock and remote
\* responses, with dryRun = TRUE
TwinStep(base, account, cfg, info, resp, t) ==
  IF base.done THEN base
  ELSE LET o == reclaimAccount(account, cfg, TRUE, base.run, info, resp, t)
       IN [active |-> TRUE,
           done |-> o.kind # "continue",
           run |-> o.run,
           row |-> ApplyOutcome(base.row, o, t),
           result |-> o.result,
           submits |-> base.submits + (IF o.submitted THEN 1 ELSE 0),
           attempts |-> recordReclaimAttempt(base.attempts, o)]

\* ------------------------------------------------------------------------
\* RateLimiter.  Tokens are counted in units of 1/TicksPerSecond token, time in
\* ticks, so that refill() and the wait time are exact integer arithmetic.
\* ------------------------------------------------------------------------
Callers == {1, 2}

\* new RateLimiter(requestsPerSecond), constructed at time t
RateLimiter(requestsPerSecond, t) ==
  [maxTokens |-> requestsPerSecond * TicksPerSecond,
   tokens |-> requestsPerSecond * TicksPerSecond,
   refillRate |-> requestsPerSecond,
   lastRefill |-> t]

\* faulty variant of refill: the bucket has no capacity
refill_NoCap(l, t) ==
  [l EXCEPT !.tokens = l.tokens + (t - l.lastRefill) * l.refillRate,
            !.lastRefill = t]

\* RateLimiter.refill() at time t
refill(l, t) ==
  [l EXCEPT !.tokens = Min(l.maxTokens, l.tokens + (t - l.lastRefill) * l.refillRate),
            !.lastRefill = t]

\* Math.ceil((1 - this.tokens) / this.refillRate * 1000), in ticks
waitTime(l) == ((TicksPerSecond - l.tokens) + l.refillRate - 1) \div l.refillRate

NotWaiting == [active |-> FALSE, wakeAt |-> 0, start |-> 0]

\* no acquire() call has been made on a limiter of 1 request per second
LimiterAtRest ==
  /\ clock = 0
  /\ limiter = RateLimiter(1, 0)
  /\ waiting = [c \in Callers |-> NotWaiting]
  /\ completed = <<>>

\* ------------------------------------------------------------------------
\* Initial state: empty store, nothing sponsored yet
\* ------------------------------------------------------------------------
BotInit ==
  /\ now = 0
  /\ remote = [h \in Handles |-> NoAccount]
  /\ history = <<>>
  /\ submits = [h \in Handles |-> 0]
  /\ reclaimHistory = <<>>
  /\ db = [h \in Handles |-> NoRow]
  /\ cursor = Null
  /\ pc = "idle"
  /\ config = NoConfig
  /\ beforeSignature = Null
  /\ page = <<>>
  /\ lastSignature = Null
  /\ newAccountCount = 0
  /\ batches = <<>>
  /\ missed = {}
  /\ skipped = {}
  /\ scanStart = Null
  /\ lastRun = "none"
  /\ rerun = "none"
  /\ eligibleAccounts = <<>>
  /\ idx = 0
  /\ run = StartRun
  /\ results = <<>>
  /\ fetched = FALSE
  /\ twin = NoTwin

\* run() is not followed step by step: the setup of a process is part of the
\* first step of its cycle
NotFollowed ==
  /\ stage = "none"
  /\ mode = "none"
  /\ storeOpen = FALSE
  /\ trace = <<>>

\* chunk is followed as part of updateAccountStatuses only
NoChunkCall == [array |-> <<>>, size |-> 1, chunks |-> <<>>, done |-> FALSE]

Init ==
  BotInit /\ LimiterAtRest /\ NotFollowed /\ chunkCall = NoChunkCall /\ retryCall = NoRetryCall

\* ------------------------------------------------------------------------
\* The remote ledger and the clock
\* ------------------------------------------------------------------------
\* The remote ledger changes account h on its own only where the bot can tell the
\* difference: while no process runs, during a monitoring cycle (which reads every
\* account), or during a reclaim cycle when h is the account reclaimAccount is
\* working on.  A change of another account commutes with the steps of the cycle.
MayChange(h) ==
  \/ pc \in {"idle", "discover", "reconcile", "batch"}
  \/ pc = "reclaim" /\ eligibleAccounts[idx].pubkey = h

Tick ==
  /\ pc # "reclaimDone"
  /\ now < MaxTime
  /\ now' = now + 1
  /\ UNCHANGED <<remote, history, db, cursor, pc, discoverVars, reclaimVars, scanVars, scanStart, lastRun>>
  /\ UNCHANGED <<limiterVars, procVars, chunkCall, retryCall>>

\* a sponsored transaction of the fee payer creates account h
Sponsor(h) ==
  /\ pc = "idle"
  /\ \A i \in 1..Len(history) : history[i].created # h
  /\ remote' = [remote EXCEPT ![h] = Funded(h)]
  /\ history' = <<[signature |-> Len(history) + 1, created |-> h]>> \o history
  /\ lastRun' = "none"
  /\ UNCHANGED <<now, db, cursor, pc, discoverVars, reclaimVars, scanVars, scanStart>>
  /\ UNCHANGED <<limiterVars, procVars, chunkCall, retryCall>>

\* somebody closes account h
Close(h) ==
  /\ MayChange(h)
  /\ remote[h].exists
  /\ remote' = [remote EXCEPT ![h] = NoAccount]
  /\ lastRun' = "none"
  /\ UNCHANGED <<now, history, db, cursor, pc, discoverVars, reclaimVars, scanVars, scanStart>>
  /\ UNCHANGED <<limiterVars, procVars, chunkCall, retryCall>>

\* somebody recreates the closed account h
Revive(h) ==
  /\ MayChange(h)
  /\ ~remote[h].exists
  /\ \E i \in 1..Len(history) : history[i].created = h
  /\ remote' = [remote EXCEPT ![h] = Funded(h)]
  /\ lastRun' = "none"
  /\ UNCHANGED <<now, history, db, cursor, pc, discoverVars, reclaimVars, scanVars, scanStart>>
  /\ UNCHANGED <<limiterVars, procVars, chunkCall, retryCall>>

\* somebody transfers a lamport to the existing account h
Topup(h) ==
  /\ MayChange(h)
  /\ remote[h].exists
  /\ remote[h].lamports < MaxLamports
  /\ remote' = [remote EXCEPT ![h].lamports = @ + 1]
  /\ lastRun' = "none"
  /\ UNCHANGED <<now, history, db, cursor, pc, discoverVars, reclaimVars, scanVars, scanStart>>
  /\ UNCHANGED <<limiterVars, procVars, chunkCall, retryCall>>

\* ------------------------------------------------------------------------
\* Monitoring cycle
\* ------------------------------------------------------------------------
\* connection.getSignaturesForAddress(koraFeePayer, {limit, before}): the page of
\* at most limit entries of the history older than before, newest first
getSignaturesForAddress(hist, before, limit) ==
  LET older == SelectSeq(hist, LAMBDA tx : before = Null \/ tx.signature < before)
  IN SubSeq(older, 1, Min(limit, Len(older)))

\* the transactions of a page of signatures whose positions are in fetchedAt
RECURSIVE FetchedOf(_, _, _)
FetchedOf(signatures, fetchedAt, i) ==
  IF i > Len(signatures) THEN <<>>
  ELSE (IF i \in fetchedAt THEN <<signatures[i]>> ELSE <<>>)
       \o FetchedOf(signatures, fetchedAt, i + 1)

\* scanSponsoredTransactions(beforeSignature, limit): the possible results.  A
\* transaction is left out of the result when getParsedTransaction fails for good
\* or returns null; lastSignature is the last signature of the page either way.
scanSponsoredTransactions(hist, before, limit) ==
  LET signatures == getSignaturesForAddress(hist, before, limit)
  IN IF Len(signatures) = 0
       THEN {[transactions |-> <<>>, lastSignature |-> Null]}
       ELSE {[transactions |-> FetchedOf(signatures, fetchedAt, 1),
              lastSignature |-> signatures[Len(signatures)].signature] :
               fetchedAt \in SUBSET (1..Len(signatures))}

\* the accounts created by the transactions of a sequence
CreatedBy(txs) == {txs[i].created : i \in 1..Len(txs)}

\* runMonitor -> runMonitoringCycle -> discoverNewAccounts, up to the loop
RunMonitor ==
  /\ pc = "idle"
  /\ stage \in {"none", "dispatch"}
  /\ stage = "dispatch" => mode = "monitor"
  /\ stage' = IF stage = "dispatch" THEN "cycle" ELSE stage
  /\ pc' = "discover"
  /\ beforeSignature' = cursor
  /\ page' = <<>>
  /\ lastSignature' = Null
  /\ newAccountCount' = 0
  /\ missed' = {}
  /\ rerun' = lastRun
  /\ lastRun' = "none"
  /\ UNCHANGED <<remoteVars, db, cursor, reclaimVars, skipped, scanStart, batches>>
  /\ UNCHANGED <<limiterVars, mode, storeOpen, trace, chunkCall, retryCall>>

\* faulty variant of DiscoverScan: the cursor is persisted when the page is read,
\* before its transactions are handled
DiscoverScan_CursorFirst ==
  /\ pc = "discover"
  /\ page = <<>>
  /\ lastSignature = Null
  /\ \E r \in scanSponsoredTransactions(history, beforeSignature, ScanLimit) :
        IF Len(r.transactions) = 0
          THEN /\ pc' = "reconcile"
               /\ lastRun' = IF r.lastSignature = Null THEN "complete" ELSE "stopped"
               /\ UNCHANGED <<page, lastSignature, missed, cursor, scanStart>>
          ELSE /\ pc' = pc
               /\ page' = r.transactions
               /\ lastSignature' = r.lastSignature
               /\ cursor' = r.lastSignature
               /\ missed' = CreatedBy(getSignaturesForAddress(history, beforeSignature,
                                                               ScanLimit))
                            \ CreatedBy(r.transactions)
               /\ scanStart' = IF beforeSignature = Null
                                  THEN getSignaturesForAddress(history, beforeSignature,
                                                               ScanLimit)[1].signature
                                  ELSE scanStart
               /\ UNCHANGED lastRun
  /\ UNCHANGED <<remoteVars, db, beforeSignature, newAccountCount, reclaimVars,
                 scanVars, batches>>
  /\ UNCHANGED <<limiterVars, procVars, chunkCall, retryCall>>

\* discoverNewAccounts: one scanSponsoredTransactions call of the while loop; with
\* no transaction in the result the loop ends and discoverNewAccounts returns
DiscoverScan ==
  /\ pc = "discover"
  /\ page = <<>>
  /\ lastSignature = Null
  /\ \E r \in scanSponsoredTransactions(history, beforeSignature, ScanLimit) :
        IF Len(r.transactions) = 0
          THEN /\ pc' = "reconcile"
               /\ lastRun' = IF r.lastSignature = Null THEN "complete" ELSE "stopped"
               /\ UNCHANGED <<page, lastSignature, missed, scanStart>>
          ELSE /\ pc' = pc
               /\ page' = r.transactions
               /\ lastSignature' = r.lastSignature
               /\ missed' = CreatedBy(getSignaturesForAddress(history, beforeSignature,
                                                               ScanLimit))
                            \ CreatedBy(r.transactions)
               /\ scanStart' = IF beforeSignature = Null
                                  THEN getSignaturesForAddress(history, beforeSignature,
                                                               ScanLimit)[1].signature
                                  ELSE scanStart
               /\ UNCHANGED lastRun
  /\ UNCHANGED <<remoteVars, db, cursor, beforeSignature, newAccountCount, reclaimVars,
                 scanVars, batches>>
  /\ UNCHANGED <<limiterVars, procVars, chunkCall, retryCall>>

\* discoverNewAccounts: one transaction of the page (its created account)
DiscoverTx ==
  /\ pc = "discover"
  /\ page # <<>>
  /\ LET tx == Head(page)
         pubkey == tx.created
         existing == db[pubkey].status # "absent"
         state == checkAccountState(remote[pubkey])
         account == [pubkey |-> pubkey, type |-> state.type,
                     status |-> IF state.exists THEN "active" ELSE "closed",
                     lamports |-> state.lamports,
                     rentExemptMinimum |-> state.rentExemptMinimum,
                     owner |-> IF state.owner # "" THEN state.owner ELSE "unknown",
                     creationTxSignature |-> tx.signature,
                     lastCheckedAt |-> now,
                     closedAt |-> IF state.exists THEN Null ELSE now]
     IN IF existing
          THEN UNCHANGED <<db, newAccountCount, missed>>
          ELSE \E failed \in BOOLEAN :
                 IF failed
                   THEN /\ missed' = missed \cup {pubkey}
                        /\ UNCHANGED <<db, newAccountCount>>
                   ELSE /\ db' = [db EXCEPT ![pubkey] = upsertAccount(@, account)]
                        /\ newAccountCount' = newAccountCount + 1
                        /\ UNCHANGED missed
  /\ page' = Tail(page)
  /\ UNCHANGED <<remoteVars, pc, cursor, beforeSignature, lastSignature, reclaimVars,
                 scanVars, scanStart, lastRun, batches>>
  /\ UNCHANGED <<limiterVars, procVars, chunkCall, retryCall>>

\* faulty variant of setLastProcessedSignature: the value is not stored
setLastProcessedSignature_NotStored(current, signature) == current

\* db.setLastProcessedSignature(lastSignature): the new value of the cursor
setLastProcessedSignature(current, signature) == signature

\* discoverNewAccounts: the end of the loop body, after the last transaction of
\* the page
DiscoverCommit ==
  /\ pc = "discover"
  /\ page = <<>>
  /\ lastSignature # Null
  /\ cursor' = setLastProcessedSignature(cursor, lastSignature)
  /\ beforeSignature' = lastSignature
  /\ lastSignature' = Null
  /\ skipped' = skipped \cup missed
  /\ missed' = {}
  /\ UNCHANGED <<remoteVars, db, pc, page, newAccountCount, reclaimVars, rerun, lastRun,
                 scanStart, batches>>
  /\ UNCHANGED <<limiterVars, procVars, chunkCall, retryCall>>

\* the monitoring process ends: runMonitoringCycle has returned and run() goes
\* on to its finally block, or it has thrown and run() goes on to its catch block
MonitorEnds(thrown) ==
  /\ pc' = "idle"
  /\ stage' = IF stage = "cycle" THEN (IF thrown THEN "catch" ELSE "finally") ELSE stage
  /\ beforeSignature' = Null
  /\ page' = <<>>
  /\ lastSignature' = Null
  /\ newAccountCount' = 0
  /\ missed' = {}
  /\ batches' = <<>>
  /\ rerun' = "none"
  /\ UNCHANGED <<mode, storeOpen, trace>>

\* the process ends inside discoverNewAccounts: scanSponsoredTransactions throws
\* (run() catches, logs and exits), or the process is killed
DiscoverAbort ==
  /\ pc = "discover"
  /\ MonitorEnds(TRUE)
  /\ lastRun' = "aborted"
  /\ scanStart' = IF cursor = Null THEN Null ELSE scanStart
  /\ UNCHANGED <<remoteVars, db, cursor, reclaimVars, skipped>>
  /\ UNCHANGED <<limiterVars, chunkCall, retryCall>>

\* faulty variant of ReconcileRow: an account found closed is set to protected
ReconcileRow_Protects(row, state, t) ==
  IF ~state.exists
    THEN updateAccountStatus(row, "protected", [NoFields EXCEPT !.lamports = 0, !.closedAt = t], t)
    ELSE updateAccountStatus(row, "active", [NoFields EXCEPT !.lamports = state.lamports], t)

\* faulty variant of ReconcileRow: a vanished account keeps its stored balance
ReconcileRow_KeepsBalance(row, state, t) ==
  IF ~state.exists
    THEN updateAccountStatus(row, "closed", [NoFields EXCEPT !.closedAt = t], t)
    ELSE updateAccountStatus(row, "active", [NoFields EXCEPT !.lamports = state.lamports], t)

\* the effect of updateAccountStatuses on one row, given its bulk-query answer
ReconcileRow(row, state, t) ==
  IF ~state.exists
    THEN updateAccountStatus(row, "closed", [NoFields EXCEPT !.lamports = 0, !.closedAt = t], t)
    ELSE updateAccountStatus(row, "active", [NoFields EXCEPT !.lamports = state.lamports], t)

\* the row of an account whose update failed once: the UPDATE had been made in
\* memory when save() threw, and the catch block then stores status error
ReconcileRowError(row, state, t) ==
  updateAccountStatus(ReconcileRow(row, state, t), "error",
                      [NoFields EXCEPT !.errorMessage = "save failed"], t)

\* faulty variant of ChunkFrom: a slice takes the element after its end as well
RECURSIVE ChunkFrom_Inclusive(_, _, _)
ChunkFrom_Inclusive(array, size, i) ==
  IF i > Len(array) THEN <<>>
  ELSE <<SubSeq(array, i, Min(i + size, Len(array)))>>
       \o ChunkFrom_Inclusive(array, size, i + size)

\* chunk(array, size): the slices array[i .. i + size - 1] for i = 1, 1 + size, ...
RECURSIVE ChunkFrom(_, _, _)
ChunkFrom(array, size, i) ==
  IF i > Len(array) THEN <<>>
  ELSE <<SubSeq(array, i, Min(i + size - 1, Len(array)))>> \o ChunkFrom(array, size, i + size)

chunk(array, size) == ChunkFrom(array, size, 1)

\* the orders in which a SELECT without ORDER BY may return the rows of S
RowOrders(S) ==
  {s \in [1..Cardinality(S) -> S] : \A i, j \in 1..Cardinality(S) : i # j => s[i] # s[j]}

Range(seq) == {seq[i] : i \in 1..Len(seq)}

\* updateAccountStatuses up to its loop: the active rows are read and cut into
\* batches; with no active row it returns at once and the process ends
updateAccountStatuses ==
  /\ pc = "reconcile"
  /\ LET activeAccounts == getAccountsByStatus(db, "active")
     IN IF activeAccounts = {}
          THEN MonitorEnds(FALSE)
          ELSE /\ \E order \in RowOrders(activeAccounts) :
                    batches' = chunk(order, BatchSize)
               /\ pc' = "batch"
               /\ UNCHANGED <<beforeSignature, page, lastSignature, newAccountCount,
                              missed, rerun, procVars>>
  /\ UNCHANGED <<remoteVars, db, cursor, reclaimVars, skipped, scanStart, lastRun>>
  /\ UNCHANGED <<limiterVars, chunkCall, retryCall>>

\* the loop goes on to the next batch, or ends and the process with it
NextBatch ==
  IF Tail(batches) = <<>>
    THEN MonitorEnds(FALSE)
    ELSE /\ batches' = Tail(batches)
         /\ UNCHANGED <<pc, beforeSignature, page, lastSignature, newAccountCount,
                        missed, rerun, procVars>>

\* one batch of updateAccountStatuses: the bulk query and the update of each of
\* its rows
ReconcileBatch ==
  /\ pc = "batch"
  /\ db' = [h \in Handles |->
              IF h \in Range(Head(batches))
                THEN ReconcileRow(db[h], checkAccountState(remote[h]), now)
                ELSE db[h]]
  /\ NextBatch
  /\ lastRun' = IF db' = db THEN lastRun ELSE "none"
  /\ UNCHANGED <<remoteVars, cursor, reclaimVars, skipped, scanStart>>
  /\ UNCHANGED <<limiterVars, chunkCall, retryCall>>

\* one batch in which the update of the row at position k fails (save() throws):
\* the catch block marks the row error, or its own update fails as well and the
\* exception leaves updateAccountStatuses with the rows from k on as they were
ReconcileWriteFails ==
  /\ pc = "batch"
  /\ LET batch == Head(batches) IN
     \E k \in 1..Len(batch), again \in BOOLEAN :
       /\ db' = [h \in Handles |->
                   IF \E i \in 1..Len(batch) : batch[i] = h /\ (i < k \/ (i > k /\ ~again))
                     THEN ReconcileRow(db[h], checkAccountState(remote[h]), now)
                   ELSE IF h = batch[k] /\ ~again
                     THEN ReconcileRowError(db[h], checkAccountState(remote[h]), now)
                   ELSE db[h]]
       /\ IF again THEN MonitorEnds(TRUE) ELSE NextBatch
       /\ lastRun' = IF again THEN "failed" ELSE "none"
  /\ UNCHANGED <<remoteVars, cursor, reclaimVars, skipped, scanStart>>
  /\ UNCHANGED <<limiterVars, chunkCall, retryCall>>

\* batchCheckAccountStates throws (the bulk query failed for good): the exception
\* leaves updateAccountStatuses and runMonitoringCycle, and the process ends
ReconcileThrow ==
  /\ pc = "batch"
  /\ MonitorEnds(TRUE)
  /\ lastRun' = "failed"
  /\ UNCHANGED <<remoteVars, db, cursor, reclaimVars, skipped, scanStart>>
  /\ UNCHANGED <<limiterVars, chunkCall, retryCall>>

\* ------------------------------------------------------------------------
\* Reclaim cycle
\* ------------------------------------------------------------------------
\* One step of reclaimAccount(el[i]) in a process of configuration cfg, from
\* position r, with answer resp of the remote call it makes: it runs up to the
\* next remote call, or to its return, and then the for loop of runReclaimCycle
\* goes to the next account or ends.  tw is the simulate-mode replay so far.
ReclaimAccountStep(cfg, el, i, r, tw, resp) ==
  LET account == el[i]
      h == account.pubkey
      o == reclaimAccount(account, cfg, cfg.dryRun, r, remote[h], resp, now)
      base == IF r.rpos = "start" THEN [NoTwin EXCEPT !.row = db[h]] ELSE tw
  IN /\ o.kind # "throw"
     /\ db' = [db EXCEPT ![h] = ApplyOutcome(@, o, now)]
     /\ submits' = [submits EXCEPT ![h] = IF o.submitted THEN @ + 1 ELSE @]
     /\ reclaimHistory' = recordReclaimAttempt(reclaimHistory, o)
     /\ remote' = IF o.submitted /\ (resp.send = "ok" \/ resp.landed)
                    THEN [remote EXCEPT ![h] = NoAccount]
                    ELSE remote
     /\ fetched' = o.fetched
     /\ twin' = IF cfg.dryRun THEN NoTwin
                ELSE TwinStep(base, account, cfg, remote[h], resp, now)
     /\ run' = o.run
     /\ eligibleAccounts' = el
     /\ results' = IF o.kind = "return" THEN Append(results, o.result) ELSE results
     /\ idx' = IF o.kind = "return" /\ i < Len(el) THEN i + 1 ELSE i
     /\ pc' = IF o.kind = "return" /\ i = Len(el) THEN "reclaimDone" ELSE "reclaim"
     /\ config' = cfg
     /\ lastRun' = "none"

\* runReclaim -> runReclaimCycle: the process loads its configuration, queries
\* the eligible accounts and runs reclaimAccount on the first one up to the
\* answer of its first remote call (nothing is awaited in between).  With no
\* eligible account runReclaimCycle returns the empty summary at once; when the
\* first revival re-check throws, the exception ends the process: either way the
\* process has changed nothing.
RunReclaim ==
  /\ pc = "idle"
  /\ \E cfg \in Configs :
       \E el \in getReclaimableAccounts(db, cfg.minAccountAgeDays, cfg.maxBatchSize, now) :
         IF Len(el) = 0
           THEN UNCHANGED <<db, remote, pc, reclaimVars, lastRun>>
           ELSE \E resp \in Responses("start", remote[el[1].pubkey]) :
                  IF reclaimAccount(el[1], cfg, cfg.dryRun, StartRun, remote[el[1].pubkey],
                                    resp, now).kind = "throw"
                    THEN UNCHANGED <<db, remote, pc, reclaimVars, lastRun>>
                    ELSE ReclaimAccountStep(cfg, el, 1, StartRun, NoTwin, resp)
  /\ UNCHANGED <<now, history, cursor, discoverVars, scanVars, scanStart>>
  /\ UNCHANGED <<limiterVars, procVars, chunkCall, retryCall>>

\* the next step of the reclaimAccount call in progress
ReclaimStep ==
  /\ pc = "reclaim"
  /\ \E resp \in Responses(run.rpos, remote[eligibleAccounts[idx].pubkey]) :
       ReclaimAccountStep(config, eligibleAccounts, idx, run, twin, resp)
  /\ UNCHANGED <<now, history, cursor, discoverVars, scanVars, scanStart>>
  /\ UNCHANGED <<limiterVars, procVars, chunkCall, retryCall>>

\* the revival re-check of reclaimAccount throws (the read failed for good): the
\* exception leaves runReclaimCycle and run() ends the process
ReclaimThrow ==
  /\ pc = "reclaim"
  /\ LET account == eligibleAccounts[idx]
         h == account.pubkey
     IN \E resp \in Responses(run.rpos, remote[h]) :
          reclaimAccount(account, config, config.dryRun, run, remote[h], resp, now).kind = "throw"
  /\ pc' = "idle"
  /\ config' = NoConfig
  /\ eligibleAccounts' = <<>>
  /\ idx' = 0
  /\ run' = StartRun
  /\ results' = <<>>
  /\ fetched' = FALSE
  /\ twin' = NoTwin
  /\ submits' = [h \in Handles |-> 0]
  /\ reclaimHistory' = <<>>
  /\ UNCHANGED <<remoteVars, db, cursor, discoverVars, scanVars, scanStart, lastRun>>
  /\ UNCHANGED <<limiterVars, procVars, chunkCall, retryCall>>

\* runReclaimCycle has returned its summary: the process ends
ReclaimExit ==
  /\ pc = "reclaimDone"
  /\ pc' = "idle"
  /\ config' = NoConfig
  /\ eligibleAccounts' = <<>>
  /\ idx' = 0
  /\ run' = StartRun
  /\ results' = <<>>
  /\ fetched' = FALSE
  /\ twin' = NoTwin
  /\ submits' = [h \in Handles |-> 0]
  /\ reclaimHistory' = <<>>
  /\ UNCHANGED <<remoteVars, db, cursor, discoverVars, scanVars, scanStart, lastRun>>
  /\ UNCHANGED <<limiterVars, procVars, chunkCall, retryCall>>

\* eligibleAccounts.reduce((sum, a) => sum + a.rentExemptMinimum, 0)
RECURSIVE totalReclaimable(_)
totalReclaimable(accounts) ==
  IF accounts = <<>> THEN 0
  ELSE Head(accounts).rentExemptMinimum + totalReclaimable(Tail(accounts))

\* successResults.reduce((sum, r) => sum + r.amount, 0)
RECURSIVE SumAmount(_)
SumAmount(rs) == IF rs = <<>> THEN 0 ELSE Head(rs).amount + SumAmount(Tail(rs))

createEmptySummary ==
  [totalProcessed |-> 0, successCount |-> 0, failedCount |-> 0, skippedCount |-> 0,
   totalReclaimed |-> 0, totalReclaimable |-> 0, results |-> <<>>]

\* faulty variant of createSummary: only the successful results are counted as
\* processed
createSummary_SuccessesOnly(rs, reclaimable) ==
  LET successResults == SelectSeq(rs, LAMBDA r : r.success)
      failedResults == SelectSeq(rs, LAMBDA r : ~r.success)
  IN [totalProcessed |-> Len(successResults),
      successCount |-> Len(successResults),
      failedCount |-> Len(failedResults),
      skippedCount |-> 0,
      totalReclaimed |-> SumAmount(successResults),
      totalReclaimable |-> reclaimable,
      results |-> rs]

createSummary(rs, reclaimable) ==
  LET successResults == SelectSeq(rs, LAMBDA r : r.success)
      failedResults == SelectSeq(rs, LAMBDA r : ~r.success)
  IN [totalProcessed |-> Len(rs),
      successCount |-> Len(successResults),
      failedCount |-> Len(failedResults),
      skippedCount |-> 0,
      totalReclaimed |-> SumAmount(successResults),
      totalReclaimable |-> reclaimable,
      results |-> rs]

\* the summary runReclaimCycle returns for the accounts it selected and the
\* results of its reclaimAccount calls
runReclaimCycleSummary(el, rs) ==
  IF Len(el) = 0 THEN createEmptySummary
  ELSE createSummary(rs, totalReclaimable(el))

\* ------------------------------------------------------------------------
\* Specification
\* ------------------------------------------------------------------------
Next ==
  \/ Tick
  \/ \E h \in Handles : Sponsor(h)
  \/ \E h \in Handles : Close(h)
  \/ \E h \in Handles : Revive(h)
  \/ RunMonitor
  \/ DiscoverScan
  \/ DiscoverTx
  \/ DiscoverCommit
  \/ updateAccountStatuses
  \/ ReconcileBatch
  \/ RunReclaim
  \/ ReclaimStep
  \/ ReclaimThrow
  \/ ReclaimExit

Spec == Init /\ [][Next]_vars

\* ------------------------------------------------------------------------
\* The bot run in monitor mode only, again and again (a scheduler starts a new
\* process whenever none runs, and a running process goes on until it ends)
\* ------------------------------------------------------------------------
NextMonitor ==
  \/ Tick
  \/ \E h \in Handles : Sponsor(h)
  \/ \E h \in Handles : Close(h)
  \/ \E h \in Handles : Revive(h)
  \/ RunMonitor
  \/ DiscoverScan
  \/ DiscoverTx
  \/ DiscoverCommit
  \/ updateAccountStatuses
  \/ ReconcileBatch
  \/ ReconcileWriteFails
  \/ ReconcileThrow

SpecMonitor ==
  /\ Init
  /\ [][NextMonitor]_vars
  /\ WF_vars(RunMonitor)
  /\ WF_vars(DiscoverScan)
  /\ WF_vars(DiscoverTx)
  /\ WF_vars(DiscoverCommit)
  /\ WF_vars(updateAccountStatuses)
  /\ WF_vars(ReconcileBatch \/ ReconcileWriteFails \/ ReconcileThrow)

\* ------------------------------------------------------------------------
\* Monitor mode with processes that may end at any point of discovery
\* ------------------------------------------------------------------------
NextResume ==
  \/ Tick
  \/ \E h \in Handles : Sponsor(h)
  \/ \E h \in Handles : Close(h)
  \/ \E h \in Handles : Revive(h)
  \/ RunMonitor
  \/ DiscoverScan
  \/ DiscoverTx
  \/ DiscoverCommit
  \/ DiscoverAbort
  \/ updateAccountStatuses
  \/ ReconcileBatch
  \/ ReconcileThrow

SpecResume == Init /\ [][NextResume]_vars

\* ------------------------------------------------------------------------
\* run() followed step by step, for processes started in monitor mode, in
\* report mode or with an unknown mode (reclaim mode goes through run() the same
\* way as monitor mode)
\* ------------------------------------------------------------------------
Modes == {"monitor", "report", "unknown"}

\* new KoraRentReclaimBot() and the call of bot.run()
NewBot ==
  /\ pc = "idle"
  /\ stage = "off"
  /\ stage' = "initialize"
  /\ mode' \in Modes
  /\ storeOpen' = FALSE
  /\ trace' = <<>>
  /\ UNCHANGED <<botVars, limiterVars, chunkCall, retryCall>>

\* await this.db.initialize(): it returns, or it throws before or after this.db
\* has been set
initialize ==
  /\ stage = "initialize"
  /\ \E thrown \in BOOLEAN :
       /\ stage' = IF thrown THEN "catch" ELSE "balance"
       /\ storeOpen' \in (IF thrown THEN BOOLEAN ELSE {TRUE})
  /\ UNCHANGED <<mode, trace, botVars, limiterVars, chunkCall, retryCall>>

\* await this.solana.getOperatorBalance()
getOperatorBalance ==
  /\ stage = "balance"
  /\ \E thrown \in BOOLEAN : stage' = IF thrown THEN "catch" ELSE "dispatch"
  /\ UNCHANGED <<mode, storeOpen, trace, botVars, limiterVars, chunkCall, retryCall>>

\* switch (options.mode), case 'report': runReport only reads the store
runReport ==
  /\ stage = "dispatch"
  /\ mode = "report"
  /\ stage' = "finally"
  /\ UNCHANGED <<mode, storeOpen, trace, botVars, limiterVars, chunkCall, retryCall>>

\* switch (options.mode), default: throw new Error('Unknown mode')
UnknownMode ==
  /\ stage = "dispatch"
  /\ mode = "unknown"
  /\ stage' = "catch"
  /\ UNCHANGED <<mode, storeOpen, trace, botVars, limiterVars, chunkCall, retryCall>>

\* the catch block of run(): process.exit(1) ends the process there and then,
\* the finally block is not run
Catch ==
  /\ stage = "catch"
  /\ trace' = Append(trace, "exit 1")
  /\ stage' = "off"
  /\ mode' = "none"
  /\ storeOpen' = FALSE
  /\ UNCHANGED <<botVars, limiterVars, chunkCall, retryCall>>

\* DatabaseService.close(): the events it adds
close(open, events) == IF open THEN Append(events, "close") ELSE events

\* the finally block of run() after the try block has completed: db.close(),
\* run() returns and the process ends with status 0
Finally ==
  /\ stage = "finally"
  /\ trace' = Append(close(storeOpen, trace), "exit 0")
  /\ stage' = "off"
  /\ mode' = "none"
  /\ storeOpen' = FALSE
  /\ UNCHANGED <<botVars, limiterVars, chunkCall, retryCall>>

NextRun ==
  \/ Tick
  \/ \E h \in Handles : Sponsor(h)
  \/ \E h \in Handles : Close(h)
  \/ NewBot
  \/ initialize
  \/ getOperatorBalance
  \/ runReport
  \/ UnknownMode
  \/ RunMonitor
  \/ DiscoverScan
  \/ DiscoverTx
  \/ DiscoverCommit
  \/ DiscoverAbort
  \/ updateAccountStatuses
  \/ ReconcileBatch
  \/ ReconcileThrow
  \/ Catch
  \/ Finally

\* no process runs ("off"); one is started by NewBot only
InitRun ==
  /\ BotInit
  /\ LimiterAtRest
  /\ stage = "off"
  /\ mode = "none"
  /\ storeOpen = FALSE
  /\ trace = <<>>
  /\ chunkCall = NoChunkCall
  /\ retryCall = NoRetryCall

SpecRun == InitRun /\ [][NextRun]_vars

\* ------------------------------------------------------------------------
\* chunk on its own: one call with any array of handles and any size >= 1
\* ------------------------------------------------------------------------
Arrays == UNION {[1..n -> Handles] : n \in 0..MaxLen}

InitChunk ==
  /\ BotInit
  /\ LimiterAtRest
  /\ NotFollowed
  /\ chunkCall \in {[array |-> a, size |-> n, chunks |-> <<>>, done |-> FALSE] :
                       a \in Arrays, n \in 1..MaxSize}
  /\ retryCall = NoRetryCall

\* the call returns
Chunk ==
  /\ ~chunkCall.done
  /\ chunkCall' = [chunkCall EXCEPT !.chunks = chunk(chunkCall.array, chunkCall.size),
                                     !.done = TRUE]
  /\ UNCHANGED <<botVars, limiterVars, procVars, retryCall>>

NextChunk == Chunk

SpecChunk == InitChunk /\ [][NextChunk]_vars

\* ------------------------------------------------------------------------
\* withRetry and the Gateway calls on their own: withRetry with any options, and
\* each network call of the Gateway with the default options
\* ------------------------------------------------------------------------
InitRetry ==
  /\ BotInit
  /\ LimiterAtRest
  /\ NotFollowed
  /\ chunkCall = NoChunkCall
  /\ retryCall \in {StartCall(BareRetry, opts) : opts \in RetryOptions}
                    \cup {StartCall(call, DefaultRetryOptions) : call \in GatewayCalls}

NextRetry ==
  \/ GatewayAcquire
  \/ Attempt

SpecRetry == InitRetry /\ [][NextRetry]_vars

\* ------------------------------------------------------------------------
\* The RateLimiter on its own: one caller makes acquire() calls one after the
\* other, each as early or as late as it likes
\* ------------------------------------------------------------------------
InitLimiter ==
  /\ BotInit
  /\ clock = 0
  /\ limiter \in {RateLimiter(r, 0) : r \in 1..MaxRate}
  /\ waiting = [c \in Callers |-> NotWaiting]
  /\ completed = <<>>
  /\ NotFollowed
  /\ chunkCall = NoChunkCall
  /\ retryCall = NoRetryCall

\* time passes
LimiterTick ==
  /\ clock < MaxClock
  /\ clock' = clock + 1
  /\ UNCHANGED <<limiter, waiting, completed, botVars, procVars, chunkCall, retryCall>>

\* acquire() up to its return or to the sleep(waitTime)
Acquire(c) ==
  /\ ~waiting[c].active
  /\ Len(completed) < MaxAcquires
  /\ LET l == refill(limiter, clock) IN
       IF l.tokens >= TicksPerSecond
         THEN /\ limiter' = [l EXCEPT !.tokens = @ - TicksPerSecond]
              /\ completed' = Append(completed, [start |-> clock, done |-> clock])
              /\ UNCHANGED waiting
         ELSE /\ limiter' = l
              /\ waiting' = [waiting EXCEPT ![c] = [active |-> TRUE,
                                                    wakeAt |-> clock + waitTime(l),
                                                    start |-> clock]]
              /\ UNCHANGED completed
  /\ UNCHANGED <<clock, botVars, procVars, chunkCall, retryCall>>

\* acquire() after the sleep: the timer fires at wakeAt or later
AcquireWake(c) ==
  /\ waiting[c].active
  /\ clock >= waiting[c].wakeAt
  /\ limiter' = [refill(limiter, clock) EXCEPT !.tokens = @ - TicksPerSecond]
  /\ completed' = Append(completed, [start |-> waiting[c].start, done |-> clock])
  /\ waiting' = [waiting EXCEPT ![c] = NotWaiting]
  /\ UNCHANGED <<clock, botVars, procVars, chunkCall, retryCall>>

NextLimiter ==
  \/ LimiterTick
  \/ Acquire(1)
  \/ AcquireWake(1)

SpecLimiter == InitLimiter /\ [][NextLimiter]_vars

\* ------------------------------------------------------------------------
\* The RateLimiter shared: the acquire() calls of several callers interleave at
\* the sleep, the one point where acquire() yields
\* ------------------------------------------------------------------------
NextShared ==
  \/ LimiterTick
  \/ \E c \in Callers : Acquire(c)
  \/ \E c \in Callers : AcquireWake(c)

SpecShared == InitLimiter /\ [][NextShared]_vars

\* ------------------------------------------------------------------------
\* reclaimAccount on its own: called with any closed row the store can hold, at
\* any age, whatever the eligibility query would have said about it
\* ------------------------------------------------------------------------
\* the closed rows the store can hold for handle h: discovered when already
\* closed (type unknown), or discovered active and found closed later
ClosedRows(h) ==
  {upsertAccount(NoRow, [pubkey |-> h, type |-> "unknown", status |-> "closed",
                         lamports |-> 0, rentExemptMinimum |-> 0, owner |-> "unknown",
                         creationTxSignature |-> h, lastCheckedAt |-> t,
                         closedAt |-> t]) : t \in Times}
  \cup
  {ReconcileRow(upsertAccount(NoRow,
                  [pubkey |-> h, type |-> checkAccountState(Funded(h)).type,
                   status |-> "active", lamports |-> Funded(h).lamports,
                   rentExemptMinimum |-> checkAccountState(Funded(h)).rentExemptMinimum,
                   owner |-> Funded(h).owner, creationTxSignature |-> h,
                   lastCheckedAt |-> 0, closedAt |-> Null]),
                checkAccountState(NoAccount), t) : t \in Times}

InitCall ==
  /\ now \in Times
  /\ remote \in [Handles -> {NoAccount} \cup {Funded(h) : h \in Handles}]
  /\ \A h \in Handles : remote[h] \in {NoAccount, Funded(h)}
  /\ history = <<[signature |-> 2, created |-> 2], [signature |-> 1, created |-> 1]>>
  /\ submits = [h \in Handles |-> 0]
  /\ reclaimHistory = <<>>
  /\ \E h \in Handles : \E row \in ClosedRows(h) :
       /\ row.closedAt <= now
       /\ db = [g \in Handles |-> IF g = h THEN row ELSE NoRow]
  /\ cursor = 1
  /\ pc = "idle"
  /\ config = NoConfig
  /\ beforeSignature = Null
  /\ page = <<>>
  /\ lastSignature = Null
  /\ newAccountCount = 0
  /\ batches = <<>>
  /\ missed = {}
  /\ skipped = {}
  /\ scanStart = 2
  /\ lastRun = "none"
  /\ rerun = "none"
  /\ eligibleAccounts = <<>>
  /\ idx = 0
  /\ run = StartRun
  /\ results = <<>>
  /\ fetched = FALSE
  /\ twin = NoTwin
  /\ LimiterAtRest
  /\ NotFollowed
  /\ chunkCall = NoChunkCall
  /\ retryCall = NoRetryCall

\* reclaimAccount(account, destination, dryRun) for any closed row, up to the
\* answer of its first remote call (the batch size plays no part in it)
CallReclaimAccount ==
  /\ pc = "idle"
  /\ \E cfg \in {c \in Configs : c.maxBatchSize = 1}, h \in getAccountsByStatus(db, "closed") :
       LET el == <<rowToAccount(h, db[h])>>
       IN \E resp \in Responses("start", remote[h]) :
            IF reclaimAccount(el[1], cfg, cfg.dryRun, StartRun, remote[h], resp, now).kind = "throw"
              THEN UNCHANGED <<db, remote, pc, reclaimVars, lastRun>>
              ELSE ReclaimAccountStep(cfg, el, 1, StartRun, NoTwin, resp)
  /\ UNCHANGED <<now, history, cursor, discoverVars, scanVars, scanStart>>
  /\ UNCHANGED <<limiterVars, procVars, chunkCall, retryCall>>

NextCall ==
  \/ \E h \in Handles : Close(h)
  \/ \E h \in Handles : Revive(h)
  \/ \E h \in Handles : Topup(h)
  \/ CallReclaimAccount
  \/ ReclaimStep
  \/ ReclaimExit

SpecCall == InitCall /\ [][NextCall]_vars

\* ------------------------------------------------------------------------
\* The bot run in reclaim mode only, again and again, on a store of closed rows
\* (a scheduler starts a new process whenever none runs, and a running process
\* goes on until it ends)
\* ------------------------------------------------------------------------
InitCycles ==
  /\ now \in Times
  /\ remote \in [Handles -> {NoAccount} \cup {Funded(h) : h \in Handles}]
  /\ \A h \in Handles : remote[h] \in {NoAccount, Funded(h)}
  /\ history = <<[signature |-> 2, created |-> 2], [signature |-> 1, created |-> 1]>>
  /\ submits = [h \in Handles |-> 0]
  /\ reclaimHistory = <<>>
  /\ db \in [Handles -> UNION {ClosedRows(h) : h \in Handles}]
  /\ \A h \in Handles : db[h] \in ClosedRows(h) /\ db[h].closedAt <= now
  /\ cursor = 1
  /\ pc = "idle"
  /\ config = NoConfig
  /\ beforeSignature = Null
  /\ page = <<>>
  /\ lastSignature = Null
  /\ newAccountCount = 0
  /\ batches = <<>>
  /\ missed = {}
  /\ skipped = {}
  /\ scanStart = 2
  /\ lastRun = "none"
  /\ rerun = "none"
  /\ eligibleAccounts = <<>>
  /\ idx = 0
  /\ run = StartRun
  /\ results = <<>>
  /\ fetched = FALSE
  /\ twin = NoTwin
  /\ LimiterAtRest
  /\ NotFollowed
  /\ chunkCall = NoChunkCall
  /\ retryCall = NoRetryCall

NextCycles ==
  \/ Tick
  \/ RunReclaim
  \/ ReclaimStep
  \/ ReclaimExit

SpecCycles ==
  /\ InitCycles
  /\ [][NextCycles]_vars
  /\ WF_vars(Tick)
  /\ WF_vars(RunReclaim)
  /\ WF_vars(ReclaimStep)
  /\ WF_vars(ReclaimExit)

\* ------------------------------------------------------------------------
\* Reclaim cycles and monitoring cycles in turn on a store whose rows were all
\* found closed at time 0, the history scanned to its end
\* ------------------------------------------------------------------------
InitReclose == InitCycles /\ now = 0

NextReclose ==
  \/ Tick
  \/ \E h \in Handles : Close(h)
  \/ \E h \in Handles : Revive(h)
  \/ RunReclaim
  \/ ReclaimStep
  \/ ReclaimExit
  \/ RunMonitor
  \/ DiscoverScan
  \/ updateAccountStatuses
  \/ ReconcileBatch

SpecReclose == InitReclose /\ [][NextReclose]_vars

\* ------------------------------------------------------------------------
\* reclaimAccount on its own, in a process that can be killed
\* ------------------------------------------------------------------------
\* The process is killed during the reclaimAccount call in progress: while it
\* waits for the answer of a remote call ("await"), after the ledger has executed
\* and confirmed the submitted transaction and before markAsReclaimed is called
\* ("confirmed"), or inside markAsReclaimed between the save of the status update
\* and the save of the reclaim_history row ("markAsReclaimed").  What the process
\* had read and written stays visible until AbortedExit.
ReclaimAbort ==
  /\ pc = "reclaim"
  /\ LET account == eligibleAccounts[idx]
         h == account.pubkey
     IN \E point \in {"await", "confirmed", "markAsReclaimed"} :
          /\ point # "await" => run.rpos = "send" /\ remote[h].exists
          /\ remote' = IF point = "await" THEN remote ELSE [remote EXCEPT ![h] = NoAccount]
          /\ submits' = IF point = "await" THEN submits ELSE [submits EXCEPT ![h] = @ + 1]
          /\ db' = IF point = "markAsReclaimed"
                     THEN [db EXCEPT ![h] =
                             updateAccountStatus(@, "reclaimed",
                               [NoFields EXCEPT
                                  !.reclaimedAt = now, !.reclaimTxSignature = "sig",
                                  !.reclaimedAmount = IF run.amount # 0 THEN run.amount
                                                      ELSE account.rentExemptMinimum], now)]
                     ELSE db
          /\ run' = IF point = "await" THEN run ELSE [run EXCEPT !.rpos = point]
  /\ pc' = "aborted"
  /\ lastRun' = "none"
  /\ UNCHANGED <<now, history, reclaimHistory, config, eligibleAccounts, idx, results,
                 fetched, twin, cursor, discoverVars, scanVars, scanStart>>
  /\ UNCHANGED <<limiterVars, procVars, chunkCall, retryCall>>

\* the killed process is gone
AbortedExit ==
  /\ pc = "aborted"
  /\ pc' = "idle"
  /\ config' = NoConfig
  /\ eligibleAccounts' = <<>>
  /\ idx' = 0
  /\ run' = StartRun
  /\ results' = <<>>
  /\ fetched' = FALSE
  /\ twin' = NoTwin
  /\ submits' = [h \in Handles |-> 0]
  /\ reclaimHistory' = <<>>
  /\ UNCHANGED <<remoteVars, db, cursor, discoverVars, scanVars, scanStart, lastRun>>
  /\ UNCHANGED <<limiterVars, procVars, chunkCall, retryCall>>

NextAbort ==
  \/ \E h \in Handles : Close(h)
  \/ \E h \in Handles : Revive(h)
  \/ \E h \in Handles : Topup(h)
  \/ CallReclaimAccount
  \/ ReclaimStep
  \/ ReclaimExit
  \/ ReclaimAbort
  \/ AbortedExit

SpecAbort == InitCall /\ [][NextAbort]_vars

\* ------------------------------------------------------------------------
\* updateAccountStatuses on its own: one pass over any store the bot can have
\* built, while the remote ledger changes and with store writes that may fail
\* ------------------------------------------------------------------------
\* the active rows the store can hold for handle h
ActiveRows(h) ==
  {upsertAccount(NoRow,
     [pubkey |-> h, type |-> checkAccountState(Funded(h)).type, status |-> "active",
      lamports |-> Funded(h).lamports,
      rentExemptMinimum |-> checkAccountState(Funded(h)).rentExemptMinimum,
      owner |-> Funded(h).owner, creationTxSignature |-> h, lastCheckedAt |-> t,
      closedAt |-> Null]) : t \in Times}

\* the protected, reclaimed and error rows the store can hold for handle h
SettledRows(h) ==
  {updateAccountStatus(row, "protected", NoFields, row.closedAt) : row \in ClosedRows(h)}
  \cup
  {markAsReclaimed(row, "sig", Funded(h).lamports, row.closedAt) : row \in ClosedRows(h)}
  \cup
  {ReconcileRowError(row, checkAccountState(Funded(h)), row.lastCheckedAt) :
     row \in ActiveRows(h)}

StoredRows(h) == {NoRow} \cup ActiveRows(h) \cup ClosedRows(h) \cup SettledRows(h)

\* discovery has returned and updateAccountStatuses is about to be called
InitPass ==
  /\ now \in Times
  /\ remote \in [Handles -> {NoAccount} \cup {Funded(h) : h \in Handles}
                                        \cup {[Funded(h) EXCEPT !.lamports = @ + 1] :
                                                h \in Handles}]
  /\ \A h \in Handles : remote[h].exists => remote[h].owner = ProgramOf(h)
  /\ history = <<[signature |-> 2, created |-> 2], [signature |-> 1, created |-> 1]>>
  /\ submits = [h \in Handles |-> 0]
  /\ reclaimHistory = <<>>
  /\ db \in [Handles -> UNION {StoredRows(h) : h \in Handles}]
  /\ \A h \in Handles :
       /\ db[h] \in StoredRows(h)
       /\ db[h].lastCheckedAt <= now
       /\ db[h].closedAt <= now
  /\ cursor = 1
  /\ pc = "reconcile"
  /\ config = NoConfig
  /\ beforeSignature = 1
  /\ page = <<>>
  /\ lastSignature = Null
  /\ newAccountCount = 0
  /\ batches = <<>>
  /\ missed = {}
  /\ skipped = {}
  /\ scanStart = 2
  /\ lastRun = "complete"
  /\ rerun = "none"
  /\ eligibleAccounts = <<>>
  /\ idx = 0
  /\ run = StartRun
  /\ results = <<>>
  /\ fetched = FALSE
  /\ twin = NoTwin
  /\ LimiterAtRest
  /\ NotFollowed
  /\ chunkCall = NoChunkCall
  /\ retryCall = NoRetryCall

NextPass ==
  \/ Tick
  \/ \E h \in Handles : Close(h)
  \/ \E h \in Handles : Revive(h)
  \/ \E h \in Handles : Topup(h)
  \/ updateAccountStatuses
  \/ ReconcileBatch
  \/ ReconcileWriteFails
  \/ ReconcileThrow

SpecPass == InitPass /\ [][NextPass]_vars

\* ------------------------------------------------------------------------
\* The write operations of the Ledger Store on their own, called at one time
\* with any arguments on the one row the store holds
\* ------------------------------------------------------------------------
InitStore ==
  /\ now \in Times
  /\ remote \in [Handles -> {NoAccount} \cup {Funded(h) : h \in Handles}]
  /\ \A h \in Handles : remote[h] \in {NoAccount, Funded(h)}
  /\ history = <<[signature |-> 2, created |-> 2], [signature |-> 1, created |-> 1]>>
  /\ submits = [h \in Handles |-> 0]
  /\ reclaimHistory = <<>>
  /\ \E h \in Handles : \E row \in StoredRows(h) :
       /\ row.lastCheckedAt <= now
       /\ row.closedAt <= now
       /\ db = [g \in Handles |-> IF g = h THEN row ELSE NoRow]
  /\ cursor = 1
  /\ pc = "idle"
  /\ config = NoConfig
  /\ beforeSignature = Null
  /\ page = <<>>
  /\ lastSignature = Null
  /\ newAccountCount = 0
  /\ batches = <<>>
  /\ missed = {}
  /\ skipped = {}
  /\ scanStart = 2
  /\ lastRun = "none"
  /\ rerun = "none"
  /\ eligibleAccounts = <<>>
  /\ idx = 0
  /\ run = StartRun
  /\ results = <<>>
  /\ fetched = FALSE
  /\ twin = NoTwin
  /\ LimiterAtRest
  /\ NotFollowed
  /\ chunkCall = NoChunkCall
  /\ retryCall = NoRetryCall

\* the SponsoredAccount objects upsertAccount is called with for handle h at time t
StoreAccounts(h, t) ==
  {[pubkey |-> h, type |-> type, status |-> status, lamports |-> 1,
    rentExemptMinimum |-> getRentExemptMinimum(DataLength(owner)), owner |-> owner,
    creationTxSignature |-> signature, lastCheckedAt |-> t,
    closedAt |-> IF status = "closed" THEN t ELSE Null] :
     type \in {"system", "token"}, status \in {"active", "closed"},
     owner \in {"sys", "tok"}, signature \in Handles}

\* the additionalFields updateAccountStatus is called with at time t
StoreFields(t) ==
  {NoFields,
   [NoFields EXCEPT !.lamports = 1],
   [NoFields EXCEPT !.lamports = 0, !.closedAt = t],
   [NoFields EXCEPT !.errorMessage = "save failed"]}

\* db.upsertAccount(account), the handle having a row
StoreUpsert(h) ==
  /\ pc = "idle"
  /\ db[h].status # "absent"
  /\ \E account \in StoreAccounts(h, now) :
       db' = [db EXCEPT ![h] = upsertAccount(@, account)]
  /\ UNCHANGED <<remoteVars, cursor, pc, discoverVars, reclaimVars, scanVars, scanStart,
                 lastRun>>
  /\ UNCHANGED <<limiterVars, procVars, chunkCall, retryCall>>

\* db.updateAccountStatus(pubkey, status, additionalFields)
StoreUpdateStatus(h) ==
  /\ pc = "idle"
  /\ db[h].status # "absent"
  /\ \E status \in {"active", "closed", "protected", "error"}, f \in StoreFields(now) :
       db' = [db EXCEPT ![h] = updateAccountStatus(@, status, f, now)]
  /\ UNCHANGED <<remoteVars, cursor, pc, discoverVars, reclaimVars, scanVars, scanStart,
                 lastRun>>
  /\ UNCHANGED <<limiterVars, procVars, chunkCall, retryCall>>

\* db.markAsReclaimed(pubkey, txSignature, amount): the status update and the
\* reclaim_history row
StoreMarkAsReclaimed(h) ==
  /\ pc = "idle"
  /\ db[h].status # "absent"
  /\ reclaimHistory = <<>>
  /\ \E amount \in 1..2 :
       db' = [db EXCEPT ![h] = markAsReclaimed(@, "sig", amount, now)]
  /\ reclaimHistory' = Append(reclaimHistory,
                              [account |-> h, success |-> TRUE, dryRun |-> FALSE])
  /\ UNCHANGED <<remoteVars, cursor, pc, discoverVars, submits, config, eligibleAccounts,
                 idx, run, results, fetched, twin, scanVars, scanStart, lastRun>>
  /\ UNCHANGED <<limiterVars, procVars, chunkCall, retryCall>>

NextStore ==
  \/ \E h \in Handles : StoreUpsert(h)
  \/ \E h \in Handles : StoreUpdateStatus(h)
  \/ \E h \in Handles : StoreMarkAsReclaimed(h)

SpecStore == InitStore /\ [][NextStore]_vars

TypeOK ==
  /\ now \in Times
  /\ pc \in {"idle", "discover", "reconcile", "batch", "reclaim", "reclaimDone", "aborted"}
  /\ \A h \in Handles : db[h].status \in AccountStatus \cup {"absent"}

\* ------------------------------------------------------------------------
\* Vocabulary of the properties
\* ------------------------------------------------------------------------
\* a reclaim process is running (or has just returned its summary)
InCycle == pc \in {"reclaim", "reclaimDone"}

\* the step in which a process queries its eligible accounts and enters
\* reclaimAccount for the first of them
Selects == pc = "idle" /\ pc' \in {"reclaim", "reclaimDone"}

\* a step of the reclaimAccount call in progress
EngineStep ==
  /\ pc = "reclaim"
  /\ pc' \in {"reclaim", "reclaimDone"}
  /\ (run' # run \/ results' # results)

\* a step that enters reclaimAccount
CallStarts == Selects \/ (EngineStep /\ run.rpos = "start")

\* the account of the reclaimAccount call a step belongs to
CalledAccount == IF pc = "idle" THEN eligibleAccounts'[1] ELSE eligibleAccounts[idx]

\* the step ends a reclaimAccount call; the result that call returns
CallReturns == Len(results') = Len(results) + 1
Returned == results'[Len(results')]

Selected(el) == {el[i].pubkey : i \in 1..Len(el)}

\* the three local checks as the specification words them
TooRecent(account, cfg, t) ==
  account.closedAt # Null /\ t - account.closedAt < cfg.minAccountAgeDays
BelowMinimum(account, cfg) == account.rentExemptMinimum < cfg.minReclaimLamports
NotAllowed(account, cfg) ==
  \/ account.owner \in cfg.blockedPrograms
  \/ cfg.allowedPrograms # {} /\ account.owner \notin cfg.allowedPrograms

\* the reclaim_history rows the running process has inserted for handle h
AttemptsOf(hist, h) == SelectSeq(hist, LAMBDA a : a.account = h)

\* ------------------------------------------------------------------------
\* C1 - Revival correctness.  Whenever an existence check of reclaimAccount
\* (the revival re-check, or the state check inside reclaimTokenAccountRent /
\* closeSystemAccount) is answered and finds the account existing, the call ends
\* there: the row becomes active and no submit call has been or will be made
\* for that account in the cycle.
\* ------------------------------------------------------------------------
C1_RevivalAbortsReclaim ==
  [][(/\ Selects \/ (EngineStep /\ run.rpos \in {"start", "reclaimToken", "closeSystem"})
      /\ fetched'
      /\ remote[CalledAccount.pubkey].exists
      /\ ~(CallReturns /\ Returned.error = "rpc error"))
     => (/\ CallReturns
         /\ db'[CalledAccount.pubkey].status = "active"
         /\ submits'[CalledAccount.pubkey] = 0)]_vars

\* ------------------------------------------------------------------------
\* C2 - Never executed twice.  A process issues at most one
\* sendAndConfirmTransaction call for an account.
\* ------------------------------------------------------------------------
C2_AtMostOneSubmit == \A h \in Handles : submits[h] <= 1

\* ------------------------------------------------------------------------
\* C3 - Status reclaimed is terminal.  No step of a discovery run, a
\* reconciliation pass or a reclaim cycle changes the status of a reclaimed row,
\* and no eligibility query selects it.
\* ------------------------------------------------------------------------
C3_ReclaimedIsTerminal ==
  [][\A h \in Handles :
       db[h].status = "reclaimed"
         => /\ db'[h].status = "reclaimed"
            /\ Selects => h \notin Selected(eligibleAccounts')]_vars

\* a reclaimed row is in the store while a later reclaim cycle, which did not
\* select it, is running
C3_Witness ==
  /\ InCycle
  /\ \E h \in Handles : db[h].status = "reclaimed" /\ h \notin Selected(eligibleAccounts)

\* ------------------------------------------------------------------------
\* C4 - Dry run.  No step of a reclaim cycle in simulate mode makes a submit
\* call, moves a row to reclaimed or inserts a successful reclaim_history row.
\* ------------------------------------------------------------------------
C4_DryRunNeverSubmits ==
  [][(pc' \in {"reclaim", "reclaimDone"} /\ config'.dryRun)
     => /\ \A h \in Handles : submits'[h] = 0
        /\ \A h \in Handles : db'[h].status = "reclaimed" => db[h].status = "reclaimed"
        /\ \A i \in 1..Len(reclaimHistory') : ~reclaimHistory'[i].success]_vars

\* a simulate-mode call has passed every check and returned success, its row
\* still closed
C4_Witness ==
  /\ InCycle /\ config.dryRun
  /\ \E i \in 1..Len(results) :
       /\ results[i].success
       /\ db[results[i].account].status = "closed"

\* ------------------------------------------------------------------------
\* C5 - Order of the safety checks.  A reclaimAccount call checks age, then
\* minimum value, then the allow-list, then revival, then dispatches on the
\* type.  It returns the error of the first check that fails; a failure of the
\* age or minimum-value check changes nothing and one of the allow-list check
\* only moves the row to protected (and stamps its last check), each without
\* any remote call; the remote
\* state is fetched when and only when the three local checks pass.
\* ------------------------------------------------------------------------
C5_ChecksInOrder ==
  [][CallStarts =>
       LET account == CalledAccount
           h == account.pubkey
           cfg == config'
           first == IF TooRecent(account, cfg, now) THEN "Account too recent"
                    ELSE IF BelowMinimum(account, cfg) THEN "Below minimum reclaim"
                    ELSE IF NotAllowed(account, cfg) THEN "Program not allowed"
                    ELSE ""
       IN IF first # ""
            THEN /\ CallReturns
                 /\ ~Returned.success /\ Returned.error = first
                 /\ ~fetched'
                 /\ submits' = submits /\ reclaimHistory' = reclaimHistory
                 /\ db' = IF first = "Program not allowed"
                            THEN [db EXCEPT ![h].status = "protected",
                                            ![h].lastCheckedAt = now]
                            ELSE db
            ELSE /\ fetched'
                 /\ IF remote[h].exists
                      THEN /\ CallReturns
                           /\ Returned.error = "Account was revived - not closed"
                           /\ db'[h].status = "active"
                      ELSE /\ db' = db
                           /\ CASE account.type \in {"token", "token_2022", "ata"} ->
                                     ~CallReturns /\ run'.rpos = "reclaimToken"
                                [] account.type = "system" ->
                                     ~CallReturns /\ run'.rpos = "closeSystem"
                                [] OTHER ->
                                     /\ CallReturns
                                     /\ Returned.error = "Unsupported account type"]_vars

\* a call for an account that is too recent and whose owner is not allowed either
\* has returned the age error, the row still closed and nothing fetched
C5_Witness ==
  /\ pc = "reclaimDone"
  /\ results[1].error = "Account too recent"
  /\ NotAllowed(eligibleAccounts[1], config)
  /\ db[eligibleAccounts[1].pubkey].status = "closed"
  /\ ~fetched

\* ------------------------------------------------------------------------
\* C6 - Protected is permanent.  A call that gets to the allow-list check and
\* fails it moves the row to protected; no step changes the status of a
\* protected row, and no eligibility query selects it.
\* ------------------------------------------------------------------------
C6_ProtectedIsPermanent ==
  [][/\ (/\ CallStarts
         /\ ~TooRecent(CalledAccount, config', now)
         /\ ~BelowMinimum(CalledAccount, config')
         /\ NotAllowed(CalledAccount, config'))
        => db'[CalledAccount.pubkey].status = "protected"
     /\ \A h \in Handles :
          db[h].status = "protected"
            => /\ db'[h].status = "protected"
               /\ Selects => h \notin Selected(eligibleAccounts')]_vars

\* a row protected by an earlier cycle is in the store, old enough for the
\* query of the reclaim cycle now running, which did not select it
C6_Witness ==
  /\ InCycle
  /\ \E h \in Handles :
       /\ db[h].status = "protected"
       /\ h \notin Selected(eligibleAccounts)
       /\ db[h].closedAt # Null
       /\ db[h].closedAt < eligibleAccounts[1].closedAt

\* ------------------------------------------------------------------------
\* C7 - Scenario R1.  A token account that passed the three local checks and
\* was non-existent on the revival re-check, and is still non-existent at the
\* next state check, ends in success: in simulate mode with the rent-exempt
\* minimum as amount and the store untouched, in live mode with a transaction
\* signature and the row reclaimed.
\* ------------------------------------------------------------------------
C7_ClosedAccountIsReclaimed ==
  [][(/\ EngineStep
      /\ run.rpos = "reclaimToken"
      /\ ~remote[CalledAccount.pubkey].exists
      /\ CallReturns
      /\ Returned.error # "rpc error")
     => /\ Returned.success
        /\ IF config.dryRun
             THEN /\ Returned.amount = CalledAccount.rentExemptMinimum
                  /\ db' = db /\ reclaimHistory' = reclaimHistory
             ELSE /\ Returned.signature # ""
                  /\ db'[CalledAccount.pubkey].status = "reclaimed"]_vars

\* ------------------------------------------------------------------------
\* C8 - Simulated vs. live parity.
\* ------------------------------------------------------------------------
\* a live reclaimAccount call has returned, and so has its simulate-mode replay
\* on the same answers of the remote ledger
LiveReturned == InCycle /\ twin.active /\ run.rpos = "start"

\* C8 as stated: the live call and its simulate-mode replay end with the same
\* success or the same error, and leave the same row unless the live call moved
\* it to reclaimed.
C8_SameOutcome ==
  LiveReturned =>
    LET live == results[Len(results)]
        h == live.account
    IN /\ twin.done
       /\ live.success = twin.result.success
       /\ live.error = twin.result.error
       /\ db[h] = twin.row \/ db[h].status = "reclaimed"

\* C8 amended: the replay never submits and never writes reclaimed.  When the
\* replay is rejected the live call is rejected with the same error, without a
\* submit call, leaving the same row and as many reclaim_history rows.  When
\* the replay succeeds the live call has made a submit call, and it either
\* succeeded with the same amount and moved the row to reclaimed, or failed
\* with the error of the submit, leaving the row as the replay did and one
\* failure row in reclaim_history.
C8_ParityUpToSubmit ==
  LiveReturned =>
    LET live == results[Len(results)]
        h == live.account
        sim == twin.result
        attempts == AttemptsOf(reclaimHistory, h)
    IN /\ twin.done
       /\ twin.submits = 0 /\ twin.row.status # "reclaimed"
       /\ IF ~sim.success
            THEN /\ live = [sim EXCEPT !.dryRun = FALSE]
                 /\ submits[h] = 0
                 /\ db[h] = twin.row
                 /\ Len(attempts) = Len(twin.attempts)
                 /\ \A i \in 1..Len(attempts) : ~attempts[i].success
            ELSE /\ submits[h] >= 1
                 /\ twin.attempts = <<>>
                 /\ Len(attempts) = 1 /\ attempts[1].success = live.success
                 /\ IF live.success
                      THEN /\ live.amount = sim.amount
                           /\ db[h].status = "reclaimed"
                      ELSE /\ live.error \in {"timeout", "custom program error"}
                           /\ db[h] = twin.row

\* the replay succeeded where the live call failed at the submit
C8_Witness ==
  /\ LiveReturned
  /\ twin.done /\ twin.result.success
  /\ ~results[Len(results)].success
  /\ submits[results[Len(results)].account] >= 1

\* ------------------------------------------------------------------------
\* C9 - Eligibility monotonicity.  Every account the eligibility query returned
\* has a closed_at, of at least the minimum age, and no reclaimAccount call of
\* the cycle rejects an account for its age.
\* ------------------------------------------------------------------------
C9_SelectedAreOldEnough ==
  InCycle =>
    /\ \A i \in 1..Len(eligibleAccounts) :
         /\ eligibleAccounts[i].closedAt # Null
         /\ now - eligibleAccounts[i].closedAt >= config.minAccountAgeDays
    /\ \A i \in 1..Len(results) : results[i].error # "Account too recent"

\* a cycle runs on its selection while another closed row is too recent for it
C9_Witness ==
  /\ InCycle
  /\ \E h \in Handles :
       /\ db[h].status = "closed"
       /\ now - db[h].closedAt < config.minAccountAgeDays
       /\ h \notin Selected(eligibleAccounts)

\* ------------------------------------------------------------------------
\* C10 - Selection.  The eligibility query returns min(limit, n) of the n rows
\* that are closed, closed before the cutoff and without reclaimed_at, none
\* twice, in non-decreasing closed_at order, and no row it leaves out was closed
\* before one it returns; the cycle keeps that list and its results follow its
\* order.
\* ------------------------------------------------------------------------
C10_OldestFirst ==
  [][/\ Selects =>
          LET el == eligibleAccounts'
              cfg == config'
              E == {h \in Handles : /\ db[h].status = "closed"
                                    /\ db[h].closedAt # Null
                                    /\ db[h].closedAt < now - cfg.minAccountAgeDays
                                    /\ db[h].reclaimedAt = Null}
          IN /\ Len(el) = Min(cfg.maxBatchSize, Cardinality(E))
             /\ \A i \in 1..Len(el) : el[i].pubkey \in E /\ el[i].closedAt = db[el[i].pubkey].closedAt
             /\ \A i, j \in 1..Len(el) : i < j =>
                  /\ el[i].pubkey # el[j].pubkey
                  /\ el[i].closedAt <= el[j].closedAt
             /\ \A h \in E \ Selected(el) :
                  \A i \in 1..Len(el) : el[i].closedAt <= db[h].closedAt
     /\ (pc = "reclaim" /\ pc' # "idle") => eligibleAccounts' = eligibleAccounts
     /\ pc' \in {"reclaim", "reclaimDone"} =>
          /\ Len(results') <= Len(eligibleAccounts')
          /\ \A i \in 1..Len(results') : results'[i].account = eligibleAccounts'[i].pubkey]_vars

\* a query with limit 1 has returned the older of two eligible rows
C10_Witness ==
  /\ InCycle
  /\ config.maxBatchSize = 1
  /\ Len(eligibleAccounts) = 1
  /\ \E h \in Handles \ Selected(eligibleAccounts) :
       /\ db[h].status = "closed"
       /\ db[h].closedAt > eligibleAccounts[1].closedAt
       /\ db[h].closedAt < now - config.minAccountAgeDays

\* ------------------------------------------------------------------------
\* Vocabulary of the discovery properties
\* ------------------------------------------------------------------------
Tracked(h) == db[h].status # "absent"
Created(h) == \E i \in 1..Len(history) : history[i].created = h
SignatureOf(h) == (CHOOSE tx \in {history[i] : i \in 1..Len(history)} : tx.created = h).signature

\* a discovery step creates a record only for a handle that has none, with the
\* status the state check of that step gives, and leaves every other record alone
InsertsOnce ==
  pc = "discover" =>
    \A h \in Handles :
      IF Tracked(h) THEN db'[h] = db[h]
      ELSE db'[h] # db[h] =>
             db'[h].status = IF remote[h].exists THEN "active" ELSE "closed"

Appended(h) == Created(h) /\ cursor # Null /\ SignatureOf(h) > scanStart

C12_AppendedIsDiscovered == \A h \in Handles : Appended(h) ~> Tracked(h)

\* ------------------------------------------------------------------------
\* C13 - Discovery is resumable: whatever processes ended inside discovery
\* before, once a discovery run has reached the end of the history, with no
\* read failed for good and the history as it was when scanning started, every
\* account the history created has its record (as after one uninterrupted
\* run), and no step of discovery inserts a handle that has a record.
\* ------------------------------------------------------------------------
C13_ResumedRunLosesNothing ==
  [][/\ InsertsOnce
     /\ (/\ lastRun' = "complete"
         /\ skipped' = {}
         /\ history' # <<>>
         /\ scanStart' = history'[1].signature)
          => \A h \in Handles : Created(h)' => Tracked(h)']_vars

\* a run resumed after a process that ended inside discovery has reached the end
\* of the history; everything had been inserted before, the last page by the
\* process that ended before persisting the cursor
C13_Witness ==
  /\ pc = "reconcile"
  /\ lastRun = "complete"
  /\ rerun = "aborted"
  /\ skipped = {}
  /\ Len(history) = Cardinality(Handles)
  /\ scanStart = history[1].signature
  /\ newAccountCount = 0
  /\ \A h \in Handles : Tracked(h)

\* ------------------------------------------------------------------------
\* C14 - Data-model invariant: a record with status reclaimed has
\* closed_at <= reclaimed_at and reclaimed_amount <= its stored rent-exempt
\* minimum.
\* ------------------------------------------------------------------------
C14_ReclaimedRecordIsConsistent ==
  \A h \in Handles :
    db[h].status = "reclaimed" =>
      /\ db[h].closedAt # Null
      /\ db[h].closedAt <= db[h].reclaimedAt
      /\ db[h].reclaimedAmount <= db[h].rentExemptMinimum

\* ------------------------------------------------------------------------
\* C15 - A reclaimAccount call that returns success in live mode leaves the
\* record reclaimed with reclaim time, transaction reference and amount set and
\* appends exactly one reclaim_history row (success, not dry-run) for it; a
\* record becomes reclaimed in no other step.
\* ------------------------------------------------------------------------
C15_LiveSuccessIsRecorded ==
  [][/\ (CallReturns /\ Returned.success /\ ~Returned.dryRun) =>
          LET h == Returned.account IN
          /\ db'[h].status = "reclaimed"
          /\ db'[h].reclaimedAt = now
          /\ db'[h].reclaimTxSignature = Returned.signature
          /\ Returned.signature # ""
          /\ db'[h].reclaimedAmount = Returned.amount
          /\ reclaimHistory' = Append(reclaimHistory,
                                      [account |-> h, success |-> TRUE, dryRun |-> FALSE])
     /\ \A h \in Handles :
          (db'[h].status = "reclaimed" /\ db[h].status # "reclaimed") =>
             /\ CallReturns
             /\ Returned.success /\ ~Returned.dryRun /\ Returned.account = h]_vars

\* a live reclaim has just succeeded
C15_Witness ==
  /\ InCycle
  /\ results # <<>>
  /\ results[Len(results)].success
  /\ ~results[Len(results)].dryRun
  /\ db[results[Len(results)].account].status = "reclaimed"
  /\ reclaimHistory # <<>>
  /\ reclaimHistory[Len(reclaimHistory)].success

\* ------------------------------------------------------------------------
\* C16 - Every reclaimAccount call that returns a rejection or a failure
\* appends exactly one reclaim_history failure row for its account, carrying the
\* dry-run flag of the cycle.
\* ------------------------------------------------------------------------
C16_FailureIsRecorded ==
  [][(CallReturns /\ ~Returned.success) =>
       reclaimHistory' = Append(reclaimHistory,
                                [account |-> Returned.account, success |-> FALSE,
                                 dryRun |-> Returned.dryRun])]_vars

\* ------------------------------------------------------------------------
\* C17 - A submit is issued only after the authority check of the same call has
\* passed (holder account: operator is owner or close authority, and the token
\* amount read is zero; system account: operator is the owner); a check that
\* does not pass ends the call with a failed result, never with an exception.
\* ------------------------------------------------------------------------
C17_SubmitOnlyAfterChecks ==
  [][/\ (\E h \in Handles : submits'[h] > submits[h]) =>
          (run.rpos = "send" /\ run.hasAuthority /\ run.tokenAmount = 0)
     /\ (pc = "reclaim" /\ run.rpos \in {"getAccount", "closeSystem"} /\ run' # run) =>
          \/ run'.rpos = "send" /\ run'.hasAuthority /\ run'.tokenAmount = 0
          \/ CallReturns /\ (Returned.success => config.dryRun)]_vars

\* the close transaction of a holder account has been submitted
C17_Witness ==
  /\ pc = "reclaim"
  /\ run.rpos = "send"
  /\ run.hasAuthority
  /\ \E h \in Handles : submits[h] > 0

\* ------------------------------------------------------------------------
\* C18 - An account for which reclaimTokenAccountRent finds the operator
\* without close authority is set to protected.
\* ------------------------------------------------------------------------
C18_NoAuthorityIsProtected ==
  [][(CallReturns
      /\ Returned.error = "Operator does not have close authority for this account") =>
       db'[Returned.account].status = "protected"]_vars

\* ------------------------------------------------------------------------
\* C20 - Monitor mode is read-only: no step of a monitoring cycle submits a
\* transaction, and none sets a record to reclaimed or protected.
\* ------------------------------------------------------------------------
C20_MonitorIsReadOnly ==
  [][(pc \in {"discover", "reconcile", "batch"} \/ pc' = "discover") =>
       /\ submits' = submits
       /\ \A h \in Handles :
            db'[h].status \in {"reclaimed", "protected"} => db'[h].status = db[h].status]_vars

\* discovery has returned and reconciliation is about to find an active account
\* closed, while the store holds a reclaimed or protected record
C20_Witness ==
  /\ pc = "batch"
  /\ \E h \in Range(Head(batches)) : db[h].status = "active" /\ ~remote[h].exists
  /\ \E h \in Handles : db[h].status \in {"reclaimed", "protected"}

\* ------------------------------------------------------------------------
\* C19 - Rate limiter conservation: with capacity = refillRate = r, the N-th of
\* the acquire() calls made one after the other returns no earlier than
\* (N - r) / r seconds after the first call started, and between the returns of
\* any two calls, t seconds apart, at most r + r * t calls return.
\* ------------------------------------------------------------------------
C19_Conservation ==
  LET r == limiter.refillRate IN
  /\ \A n \in 1..Len(completed) :
       (n - r) * TicksPerSecond <= r * (completed[n].done - completed[1].start)
  /\ \A i, j \in 1..Len(completed) :
       i <= j => (j - i + 1 - r) * TicksPerSecond
                   <= r * (completed[j].done - completed[i].done)

\* more calls than the capacity have returned, the last one after a sleep and at
\* the earliest time the bound allows
C19_Witness ==
  /\ Len(completed) > limiter.refillRate
  /\ completed[Len(completed)].done > completed[Len(completed)].start
  /\ (Len(completed) - limiter.refillRate) * TicksPerSecond
       = limiter.refillRate * (completed[Len(completed)].done - completed[1].start)

\* ------------------------------------------------------------------------
\* C21 - Exit behaviour: when run() ends the process with status 1 after a setup
\* or cycle error, the store it had opened has been closed (saved and released)
\* before: the close event precedes the exit event.
\* ------------------------------------------------------------------------
C21_CloseBeforeExit ==
  [][(stage = "catch" /\ storeOpen /\ stage' = "off") =>
       \E i, j \in 1..Len(trace') :
         i < j /\ trace'[i] = "close" /\ trace'[j] = "exit 1"]_vars

\* ------------------------------------------------------------------------
\* C22 - The batch summary of a reclaim cycle that returns: totalProcessed is
\* the number of selected accounts and equals successCount + failedCount;
\* totalReclaimed is the sum of the amounts of the successful results;
\* totalReclaimable is the sum of the stored rent-exempt minimums of all
\* selected accounts, whatever their outcome; results has one entry per
\* selected account, in processing order.
\* ------------------------------------------------------------------------
\* the sum of f over the positions of I
RECURSIVE SumOver(_, _)
SumOver(f, I) ==
  IF I = {} THEN 0
  ELSE LET i == CHOOSE j \in I : TRUE IN f[i] + SumOver(f, I \ {i})

C22_SummaryAddsUp ==
  pc \in {"idle", "reclaimDone"} =>
    LET summary == runReclaimCycleSummary(eligibleAccounts, results)
        n == Len(eligibleAccounts)
        succeeded == {i \in 1..Len(results) : results[i].success}
    IN /\ summary.totalProcessed = n
       /\ summary.totalProcessed = summary.successCount + summary.failedCount
       /\ summary.successCount = Cardinality(succeeded)
       /\ summary.totalReclaimed = SumOver([i \in 1..Len(results) |-> results[i].amount],
                                           succeeded)
       /\ summary.totalReclaimable
            = SumOver([i \in 1..n |-> eligibleAccounts[i].rentExemptMinimum], 1..n)
       /\ Len(summary.results) = n
       /\ \A i \in 1..n : summary.results[i].account = eligibleAccounts[i].pubkey

\* a cycle over two accounts has returned: one reclaimed, one failed
C22_Witness ==
  /\ pc = "reclaimDone"
  /\ Len(eligibleAccounts) = 2
  /\ \E i, j \in 1..2 : results[i].success /\ results[i].amount > 0 /\ ~results[j].success

\* ------------------------------------------------------------------------
\* C23 - chunk(array, size) with size >= 1 partitions the array: the chunks
\* concatenated in order give back the array, every chunk but the last has
\* exactly size elements, the last has between 1 and size, the empty array
\* gives no chunks; so an array of distinct keys has each key in exactly one
\* chunk (each active account is in one batch of the reconciliation pass).
\* ------------------------------------------------------------------------
RECURSIVE Concat(_)
Concat(seqs) == IF seqs = <<>> THEN <<>> ELSE Head(seqs) \o Concat(Tail(seqs))

C23_ChunkPartitions ==
  chunkCall.done =>
    LET array == chunkCall.array
        size == chunkCall.size
        chunks == chunkCall.chunks
        n == Len(chunks)
    IN /\ Concat(chunks) = array
       /\ \A k \in 1..(n - 1) : Len(chunks[k]) = size
       /\ n > 0 => Len(chunks[n]) \in 1..size
       /\ array = <<>> => chunks = <<>>
       /\ (\A i, j \in 1..Len(array) : i # j => array[i] # array[j]) =>
            \A i \in 1..Len(array) :
              Cardinality({k \in 1..n : array[i] \in Range(chunks[k])}) = 1

\* a call has returned several chunks, the last one shorter than the others
C23_Witness ==
  /\ chunkCall.done
  /\ Len(chunkCall.chunks) > 1
  /\ Len(chunkCall.chunks[Len(chunkCall.chunks)]) < chunkCall.size

PositionsOf(h, bs) ==
  {<<b, i>> \in (1..Len(bs)) \X (1..MaxLen) : i <= Len(bs[b]) /\ bs[b][i] = h}

\* C25: updateAccountStatuses takes the rows that are active when the pass starts,
\* each in exactly one batch, and changes nothing while it does so; a batch that
\* is handled without a failure turns every row of it whose account is gone into
\* closed with balance 0 and closed_at = now, and refreshes only the balance and
\* the last-checked time of every row of it whose account still exists; a pass
\* returns only after its last batch; rows outside the batch, so rows in any
\* other status, are never modified.
C25_Reconciliation ==
  [][/\ pc = "reconcile" =>
          /\ db' = db
          /\ pc' = "batch" =>
               \A h \in Handles :
                 Cardinality(PositionsOf(h, batches')) = IF db[h].status = "active" THEN 1 ELSE 0
     /\ pc = "batch" /\ batches' = batches => db' = db
     /\ pc = "batch" /\ batches' # batches =>
          /\ lastRun' # "failed" =>
               IF pc' = "idle" THEN Tail(batches) = <<>> ELSE batches' = Tail(batches)
          /\ \A h \in Handles :
               IF h \notin Range(Head(batches)) THEN db'[h] = db[h]
               ELSE /\ db[h].status = "active"
                    /\ lastRun' # "failed" /\ db'[h].status # "error" =>
                         db'[h] = IF remote[h].exists
                                    THEN [db[h] EXCEPT !.lamports = remote[h].lamports,
                                                       !.lastCheckedAt = now]
                                    ELSE [db[h] EXCEPT !.status = "closed", !.lamports = 0,
                                                       !.closedAt = now,
                                                       !.lastCheckedAt = now]]_vars

\* a pass has returned after it closed the row of a vanished account and
\* refreshed the balance of an account that had been topped up
C25_Witness ==
  /\ pc = "idle"
  /\ lastRun # "failed"
  /\ \E h1, h2 \in Handles :
       /\ db[h1].status = "closed" /\ db[h1].closedAt = now /\ db[h1].lastCheckedAt = now
       /\ db[h1].lamports = 0 /\ ~remote[h1].exists
       /\ db[h2].status = "active" /\ db[h2].lastCheckedAt = now
       /\ db[h2].lamports > Funded(h2).lamports

\* C26: in reconciliation a failure of one row's update or of one bulk query
\* never aborts the pass: every batch that is started is handled to its end,
\* each of its rows is checked and updated (the row whose update failed is
\* marked error), the pass goes on to the later batches and returns.
C26_FailureNeverAborts ==
  [][pc = "batch" /\ batches' # batches =>
       /\ lastRun' # "failed"
       /\ IF pc' = "idle" THEN Tail(batches) = <<>> ELSE batches' = Tail(batches)
       /\ \A h \in Range(Head(batches)) :
            /\ db'[h].lastCheckedAt = now
            /\ db'[h].status \in {"active", "closed", "error"}]_vars

\* C27: a reclaim cycle that has started on its accounts ends in one way only:
\* it returns, with exactly one result for every selected account, in order; no
\* failure that concerns one account ends it by an exception.
C27_CycleAlwaysReturns ==
  [][/\ pc = "reclaim" /\ pc' # "reclaim" => pc' = "reclaimDone"
     /\ pc # "reclaimDone" /\ pc' = "reclaimDone" =>
          /\ Len(results') = Len(eligibleAccounts')
          /\ \A i \in 1..Len(results') : results'[i].account = eligibleAccounts'[i].pubkey]_vars

C29_AbortLeavesStoreConsistent ==
  pc = "aborted" =>
    LET h == eligibleAccounts[idx].pubkey IN
    /\ db[h].status = "reclaimed" <=>
         \E i \in 1..Len(reclaimHistory) :
           /\ reclaimHistory[i].account = h
           /\ reclaimHistory[i].success
           /\ ~reclaimHistory[i].dryRun
    /\ run.rpos \in {"confirmed", "markAsReclaimed"} => db[h].status = "reclaimed"

\* C30: ScanCursor invariant: whenever the persisted cursor has a value, every
\* account created by a transaction of the history between the signature where
\* the scan started and the cursor (inclusive) has its record in the store,
\* also after a transaction detail or an account state could not be read.
C30_CursorCoversProcessed ==
  (cursor # Null /\ scanStart # Null) =>
    \A h \in Handles :
      (Created(h) /\ cursor <= SignatureOf(h) /\ SignatureOf(h) <= scanStart) => Tracked(h)

\* C31: discoverNewAccounts stops paginating only when the listing returns a
\* page with no entry: the step that ends the loop has read an empty page.
C31_StopsOnlyOnEmptyPage ==
  [][pc = "discover" /\ pc' = "reconcile" =>
       getSignaturesForAddress(history, beforeSignature, ScanLimit) = <<>>]_vars

\* C32: every discovery step that handles a transaction whose account has no
\* record leaves a record for it: active or closed when the state check
\* answered, error with the message when the state check failed.
C32_FailedCheckIsRecorded ==
  [][(pc = "discover" /\ page # <<>> /\ page' = Tail(page)
      /\ ~Tracked(Head(page).created)) =>
       LET h == Head(page).created IN
       IF h \in missed'
         THEN db'[h].status = "error" /\ db'[h].errorMessage # ""
         ELSE db'[h].status \in {"active", "closed"}]_vars

\* C33: every network call attempt of the Gateway is preceded by its own
\* acquire(): no call has made more attempts than acquire() calls, and a call
\* that has ended has made as many acquire() calls as attempts.
C33_AcquirePerAttempt ==
  retryCall.call \in GatewayCalls =>
    /\ retryCall.attempt <= retryCall.acquired
    /\ retryCall.pos = "done" => retryCall.acquired = retryCall.attempt

\* the messages of ErrorMessages that contain a retryable substring when case
\* is ignored
RetryableMessages ==
  {<<"T", "i", "m", "e", "o", "u", "t">>,
   <<"c", "o", "n", "n", "e", "c", "t", " ", "E", "T", "I", "M", "E", "D", "O", "U", "T">>,
   <<"H", "T", "T", "P", " ", "4", "2", "9">>,
   <<"R", "a", "t", "e", " ", "L", "i", "m", "i", "t">>}

\* C34: withRetry calls fn at most maxAttempts times and not again after a
\* success; it calls fn again only after a failure with a retryable message
\* (case ignored), and has slept before each further attempt, first for
\* initialDelay and then each time for the last delay times backoffMultiplier,
\* capped at maxDelay; when it throws, it throws the error of the last attempt,
\* which was not retryable or was the maxAttempts-th.
C34_WithRetry ==
  [][retryCall'.call.wrapped =>
       LET c == retryCall'
           o == c.opts
       IN /\ c.attempt <= o.maxAttempts
          /\ (retryCall'.attempt > retryCall.attempt /\ retryCall.attempt > 0) =>
               /\ retryCall.result = "none"
               /\ retryCall.lastError \in RetryableMessages
          /\ Len(c.sleeps) = IF c.result = "none" THEN c.attempt ELSE c.attempt - 1
          /\ \A k \in 1..Len(c.sleeps) :
               c.sleeps[k] = IF k = 1 THEN o.initialDelayMs
                             ELSE Min(c.sleeps[k - 1] * o.backoffMultiplier, o.maxDelayMs)
          /\ c.result = "returned" => c.raised = <<>>
          /\ c.result = "thrown" =>
               /\ c.raised = c.lastError
               /\ c.lastError \notin RetryableMessages \/ c.attempt = o.maxAttempts]_vars

\* a call has thrown after its fourth attempt failed with a retryable message in
\* capitals, and its third sleep was cut to maxDelay
C34_Witness ==
  /\ retryCall.call = BareRetry
  /\ retryCall.result = "thrown"
  /\ retryCall.attempt = 4
  /\ retryCall.lastError = <<"R", "a", "t", "e", " ", "L", "i", "m", "i", "t">>
  /\ Len(retryCall.sleeps) = 3
  /\ retryCall.sleeps[3] = retryCall.opts.maxDelayMs
  /\ retryCall.sleeps[3] < retryCall.sleeps[2] * retryCall.opts.backoffMultiplier

\* the owners a stored row can have
StoredOwners == {"sys", "tok", "other", "unknown"}

\* isProgramAllowed against its specification, for every owner and every pair of
\* lists over StoredOwners
AllowedAsSpecified ==
  \A allowed \in SUBSET StoredOwners : \A blocked \in SUBSET StoredOwners :
    \A owner \in StoredOwners :
      isProgramAllowed([allowedPrograms |-> allowed, blockedPrograms |-> blocked], owner)
        <=> (owner \notin blocked /\ (allowed = {} \/ owner \in allowed))

C36_TokensWithinBounds ==
  /\ 0 <= limiter.tokens
  /\ limiter.tokens <= limiter.maxTokens

\* a reclaim cycle is running
CycleRuns == pc \in {"reclaim", "reclaimDone"}

\* the row of h is closed, and old enough for the reclaim cycle that runs, if
\* one runs; no other row was closed at the same time (the order of the query
\* leaves ties open)
ClosedAndOldEnough(h) ==
  /\ db[h].status = "closed"
  /\ db[h].closedAt # Null
  /\ db[h].reclaimedAt = Null
  /\ db[h].closedAt < now
  /\ CycleRuns => db[h].closedAt < now - config.minAccountAgeDays
  /\ \A g \in Handles \ {h} : db[g].closedAt # db[h].closedAt

\* C37: no starvation.  Under repeated reclaim cycles a row that stays closed
\* and older than the minimum age is selected by a cycle again and again (and so
\* evaluated by reclaimAccount), whatever older closed rows the cycles reject.
C37_NoStarvation ==
  \A h \in Handles :
    <>[]ClosedAndOldEnough(h) => []<>(CycleRuns /\ h \in Selected(eligibleAccounts))

\* C38: closed_at follows the latest close detection.  A step that finds the
\* account of a row that is not closed gone (also one revived by the reclaim
\* engine before) sets closed_at to the time of that step, and no step changes
\* the closed_at of a row that stays closed: the closed_at of a closed row is the
\* time of its latest transition to closed.  A row is selected for reclaim only
\* when the minimum age has passed since that time.
C38_ClosedAtIsLatestDetection ==
  [][\A h \in Handles :
       /\ (db[h].status # "closed" /\ db'[h].status = "closed") => db'[h].closedAt = now
       /\ (db[h].status = "closed" /\ db'[h].status = "closed")
            => db'[h].closedAt = db[h].closedAt
       /\ (Selects /\ h \in Selected(eligibleAccounts'))
            => /\ db[h].status = "closed"
               /\ now - db[h].closedAt >= config'.minAccountAgeDays]_vars

\* a row found closed at time 0 and revived since has been found closed again at
\* time 2, which is now: it is closed with closed_at 2, too recent for a minimum
\* age of one day
C38_Witness ==
  \E h \in Handles :
    /\ db[h].status = "closed"
    /\ now = 2
    /\ db[h].closedAt = now
    /\ ReclaimableRows(db, now - 1) = Handles \ {h}

\* C39: once a row exists it stays, and no write operation of the store
\* (upsertAccount on an existing handle, updateAccountStatus, markAsReclaimed)
\* changes its type, its owner, its rent-exempt minimum or the signature of
\* the transaction that created it.
C39_IdentityIsFrozen ==
  [][\A h \in Handles :
       db[h].status # "absent" =>
         /\ db'[h].status # "absent"
         /\ db'[h].type = db[h].type
         /\ db'[h].owner = db[h].owner
         /\ db'[h].rentExemptMinimum = db[h].rentExemptMinimum
         /\ db'[h].creationTxSignature = db[h].creationTxSignature]_vars

\* a row created for a token account by transaction 1 has since been written by
\* upsertAccount or updateAccountStatus and by markAsReclaimed, and still says so
C39_Witness ==
  /\ db[1].status = "reclaimed"
  /\ db[1].lamports = 1
  /\ db[1].lastCheckedAt = 2
  /\ db[1].errorMessage = "save failed"
  /\ db[1].type = "token" /\ db[1].owner = "tok" /\ db[1].creationTxSignature = 1
====
